---- MODULE Spec2Model ----
(***************************************************************************)
(* Dynamic querying (src/src/core/dq.c): a state-machine model of the      *)
(* dynamic query engine of an ultrapeer.                                   *)
(*                                                                         *)
(* The engine is single-threaded: every action below is one complete       *)
(* handler (an entry point of dq.c, a callout-queue callback or the free   *)
(* routine of a message), with every function it calls.  The C functions   *)
(* are operators from an engine state S (a record of the variables) to the *)
(* engine state after the call.  The collaborators of dq.c (neighbour      *)
(* table, QRP, message queue, callout queue, search store) are inputs      *)
(* drawn from small sets, or the small pieces of state declared below.     *)
(* A message handed to the message queue stays in `mq' until the queue     *)
(* frees it, sent or dropped, in a later step.  The callout queue has no   *)
(* clock here: an armed event may fire at any time, and its delay is kept  *)
(* as data.  dq_close() and the debugging output are not modelled.         *)
(***************************************************************************)
EXTENDS Integers, Sequences, FiniteSets

VARIABLES
    dqs,            \* the dquery_t records, by address (NoDq: unallocated)
    dqueries,       \* `dqueries' table: addresses of the live queries
    by_node_id,     \* `by_node_id' table: node ID -> list of queries
    by_muid,        \* `by_muid' table: MUID -> query
    by_leaf_muid,   \* `by_leaf_muid' table: leaf MUID -> query
    callout_queue,  \* events armed in the callout queue
    mq,             \* pmsg_info of the extended messages not freed yet
    dyn_query_id,   \* next query ID
    failed,         \* assertions (g_assert, g_error) that failed: abort
    world,          \* the neighbourhood and the traffic of this run
    last            \* the handler that ran last: its name and its outputs

vars == <<dqs, dqueries, by_node_id, by_muid, by_leaf_muid, callout_queue,
          mq, dyn_query_id, failed, world, last>>

----------------------------------------------------------------------------
(* Program constants                                                       *)

DQ_MAX_LIFETIME == 600000
DQ_PROBE_TIMEOUT == 1500
DQ_PENDING_TIMEOUT == 1200
DQ_QUERY_TIMEOUT == 3700
DQ_TIMEOUT_ADJUST == 100
DQ_MIN_TIMEOUT == 1500
DQ_LINGER_TIMEOUT == 180000
DQ_STATUS_TIMEOUT == 40000
DQ_MAX_PENDING == 3
DQ_MAX_STAT_TIMEOUT == 2
DQ_STAT_THRESHOLD == 3
DQ_MIN_FOR_GUIDANCE == 20
DQ_LEAF_RESULTS == 50
DQ_LOCAL_RESULTS == 150
DQ_SHA1_DECIMATOR == 25
DQ_PROBE_UP == 3
DQ_MAX_HORIZON == 500000
DQ_MIN_HORIZON == 3000
DQ_LOW_RESULTS == 10
DQ_PERCENT_KEPT == 5
DQ_MAX_TTL == 5
DQ_AVG_ULTRA_NODES == 3
DQ_MQ_EPSILON == 2048
MAX_DEGREE == 50
MAX_TTL == 5
KEPT_STOP == 65535

NULL == "NULL"
NODE_ID_SELF == "self"
DQUERY_MAGIC == 1398835955
NoDq == [magic |-> 0]            \* memory that holds no dquery_t

----------------------------------------------------------------------------
(* Bounds and input sets of the model                                      *)

MaxQueriesOne == 1  \* queries launched in one run of the one-query world
MaxQueriesTwo == 2  \* queries launched in one run of the two-query world
MaxHitsOne == 2     \* results a query is told about in the one-query world
MaxHitsTwo == 1     \* results a query is told about in the two-query world
MaxQueriesThree == 1  \* queries launched in one run of the five-neighbour world
MaxHitsThree == 20    \* results a query is told about in the five-neighbour world
MaxQueriesFour == 1   \* queries launched in one run of the firewall world
MaxHitsFour == 2      \* results a query is told about in the firewall world
MaxQueriesFive == 1   \* queries launched in one run of the two-neighbour world
MaxHitsFive == 1      \* results a query is told about in the two-neighbour world
MaxQueriesSix == 2    \* queries launched in one run of the conflicting-MUID world
MaxHitsSix == 1       \* results a query is told about in the conflicting-MUID world
MaxQueriesSeven == 1  \* queries launched in one run of the peer-mode world
MaxHitsSeven == 1     \* results a query is told about in the peer-mode world
MaxQueriesEight == 1  \* queries launched in one run of the rare-content world
MaxHitsEight == 3     \* results a query is told about in the rare-content world
MaxQueriesNine == 1   \* queries launched in one run of the limits world
MaxHitsNine == 60     \* results a query is told about in the limits world
MaxQueriesTen == 1    \* queries launched in one run of the last-hop world
MaxHitsTen == 1       \* results a query is told about in the last-hop world
MaxQueriesEleven == 1 \* queries launched in one run of the guidance world
MaxHitsEleven == 20   \* results a query is told about in the guidance world
MaxQueriesTwelve == 1 \* queries launched in one run of the lossy guidance world
MaxHitsTwelve == 1    \* results a query is told about in the lossy guidance world
MaxQueriesThirteen == 1 \* queries launched in one run of the routing world
MaxHitsThirteen == 2    \* results a query is told about in the routing world
MaxQueriesFourteen == 1 \* queries launched in one run of the TTL world
MaxHitsFourteen == 2    \* results a query is told about in the TTL world
MaxHeaderTtl == 7       \* greatest TTL of a query received in the TTL world
MaxQueriesFifteen == 2 \* queries launched in one run of the accounting world
MaxHitsFifteen == 1    \* results a query is told about in the accounting world
MaxProbeUps == 19     \* ultrapeers that a probe may find fit for a query

Slots == {1, 2}                 \* addresses handed out by walloc()
\* Neighbouring ultrapeers, in the order of their connection.
UPSeq == <<"u1", "u2", "u3", "u4", "u5", "u6", "u7", "u8", "u9", "u10",
          "u11", "u12", "u13", "u14", "u15", "u16", "u17", "u18", "u19", "u20">>
UPs == {UPSeq[i] : i \in DOMAIN UPSeq}

\* Advertised degree, maximum TTL and last-hop QRP support of the neighbours.
NodeDegree(n) == CASE n = "u1" -> 6 [] n = "u2" -> 30 [] n = "u6" -> 50 [] OTHER -> 1
NodeMaxTtl(n) == CASE n = "u1" -> 4 [] n = "u2" -> 3 [] n \in {"u3", "u4", "u5"} -> 1 [] OTHER -> 5
NodeUpQrp(n) == n \in {"u2", "u3"}

----------------------------------------------------------------------------
(* Helpers                                                                 *)

MIN(a, b) == IF a < b THEN a ELSE b
MAX(a, b) == IF a > b THEN a ELSE b
\* guint32 arithmetic.  The values of the model stay far below 2^32; a
\* difference that would be negative wraps to a value above every threshold
\* it is compared with, HUGE here.
HUGE == 2147483647
U32(x) == IF x < 0 THEN HUGE ELSE x

Perms(S) == {p \in [1..Cardinality(S) -> S] : \A i, j \in DOMAIN p : i # j => p[i] # p[j]}

RECURSIVE Pow(_, _)
Pow(b, e) == IF e = 0 THEN 1 ELSE b * Pow(b, e - 1)

Has(S, s, f) == f \in S.dqs[s].flags

\* g_assert(cond): the process aborts when cond is false.
g_assert(S, cond, what) == IF cond THEN S ELSE [S EXCEPT !.failed = @ \cup {what}]

Emit(S, o) == [S EXCEPT !.out = @ \cup {o}]

----------------------------------------------------------------------------
(* Horizon                                                                 *)

\* hosts[i][j], i = degree - 1, j = ttl - 1, as filled by fill_hosts().
RECURSIVE hosts(_, _)
hosts(i, j) == IF j = 0 THEN 1 ELSE hosts(i, j - 1) + Pow(i, j)

\* dq_get_horizon() reading the table at the very degree and TTL it is given.
dq_get_horizon_unclamped(degree, ttl) ==
    (hosts(degree - 1, ttl - 1) * Pow(4, ttl - 1)) \div Pow(5, ttl - 1)

\* hosts[i][j] * pow(0.80, j), truncated to a guint32 (the doubles of the C
\* code give exactly these integers over the whole table).
dq_get_horizon(degree, ttl) ==
    LET i == MIN(degree, MAX_DEGREE) - 1
        j == MIN(ttl, MAX_TTL) - 1
    IN (hosts(i, j) * Pow(4, j)) \div Pow(5, j)

----------------------------------------------------------------------------
(* Callout queue                                                           *)

Event(fn, s, qid, delay) == [fn |-> fn, obj |-> s, gen |-> qid, delay |-> delay]

\* dq->results_ev / dq->expire_ev are TRUE when they hold an event handle.
Handle(S, s, fn) == IF fn = "dq_expired" THEN S.dqs[s].expire_ev ELSE S.dqs[s].results_ev

SetHandle(S, s, fn, v) ==
    IF fn = "dq_expired" THEN [S EXCEPT !.dqs[s].expire_ev = v]
    ELSE [S EXCEPT !.dqs[s].results_ev = v]

Mine(S, s, fn) == {e \in S.cq : e.fn = fn /\ e.obj = s /\ e.gen = S.dqs[s].qid}

cq_insert(S, delay, fn, s) ==
    SetHandle([S EXCEPT !.cq = @ \cup {Event(fn, s, S.dqs[s].qid, delay)}], s, fn, TRUE)

cq_cancel(S, s, fn) ==
    IF Handle(S, s, fn)
    THEN SetHandle([S EXCEPT !.cq = @ \ Mine(S, s, fn)], s, fn, FALSE)
    ELSE S

cq_resched(S, s, fn, delay) ==
    [S EXCEPT !.cq = (@ \ Mine(S, s, fn)) \cup {Event(fn, s, S.dqs[s].qid, delay)}]

----------------------------------------------------------------------------
(* Send bookkeeping                                                        *)

dq_kept_results(S, s, kept) ==
    LET dq == S.dqs[s]
    IN IF dq.node_id = NODE_ID_SELF THEN kept
       ELSE IF "GOT_GUIDANCE" \in dq.flags
            THEN U32((dq.kept_results \div DQ_AVG_ULTRA_NODES) + dq.new_results)
            ELSE dq.results

\* dq_kept_results() stores what the search store says for a local query.
dq_kept_results_upd(S, s, kept) ==
    IF S.dqs[s].node_id = NODE_ID_SELF THEN [S EXCEPT !.dqs[s].kept_results = kept] ELSE S

Pmi(S, s, degree, ttl, node_id) ==
    [dq |-> s, qid |-> S.dqs[s].qid, node_id |-> node_id, degree |-> degree, ttl |-> ttl]

\* A faulty dq_pmi_alloc(): the node is not recorded in dq->queried.
dq_pmi_alloc_forget(S, s, degree, ttl, node_id) == S

dq_pmi_alloc(S, s, degree, ttl, node_id) ==
    [S EXCEPT !.dqs[s].queried = @ \cup {node_id}]

\* A faulty dq_alive(): the query ID is not compared.
dq_alive_no_qid(S, s, qid) == s \in S.dqueries

dq_alive(S, s, qid) ==
    IF s \notin S.dqueries THEN FALSE ELSE S.dqs[s].qid = qid

dq_pmi_free(S, pmi) == [S EXCEPT !.mq = @ \ {pmi}]

\* A faulty dq_pmsg_free(): the results event is left as it is when the last
\* pending message is dropped.
dq_pmsg_free_no_resched(S, pmi, sent) ==
    LET s == pmi.dq IN
    IF ~dq_alive(S, s, pmi.qid) THEN dq_pmi_free(S, pmi)
    ELSE
      LET S0 == g_assert(S, S.dqs[s].pending > 0, "dq_pmsg_free: pending > 0")
          S1 == [S0 EXCEPT !.dqs[s].pending = U32(@ - 1)]
          S2 == IF ~sent
                THEN LET A == g_assert(S1, pmi.node_id \in S1.dqs[s].queried, "dq_pmsg_free: key")
                     IN [A EXCEPT !.dqs[s].queried = @ \ {pmi.node_id}]
                ELSE [S1 EXCEPT !.dqs[s].horizon = U32(@ + dq_get_horizon(pmi.degree, pmi.ttl)),
                                !.dqs[s].up_sent = U32(@ + 1)]
      IN dq_pmi_free(S2, pmi)

dq_pmsg_free(S, pmi, sent) ==
    LET s == pmi.dq IN
    IF ~dq_alive(S, s, pmi.qid) THEN dq_pmi_free(S, pmi)
    ELSE
      LET S0 == g_assert(S, S.dqs[s].pending > 0, "dq_pmsg_free: pending > 0")
          S1 == [S0 EXCEPT !.dqs[s].pending = U32(@ - 1)]
          S2 == IF ~sent
                THEN LET A == g_assert(S1, pmi.node_id \in S1.dqs[s].queried, "dq_pmsg_free: key")
                         B == [A EXCEPT !.dqs[s].queried = @ \ {pmi.node_id}]
                     IN IF B.dqs[s].pending = 0 /\ B.dqs[s].results_ev
                        THEN cq_resched(B, s, "dq_results_expired", 1)
                        ELSE B
                ELSE [S1 EXCEPT !.dqs[s].horizon = U32(@ + dq_get_horizon(pmi.degree, pmi.ttl)),
                                !.dqs[s].up_sent = U32(@ + 1)]
      IN dq_pmi_free(S2, pmi)

\* The copies of the template kept in dq->by_ttl[] are not part of the
\* model: what remains of dq_pmsg_by_ttl() is its assertion.
dq_pmsg_by_ttl(S, s, ttl) ==
    LET A == g_assert(S, ttl > 0 /\ ttl <= DQ_MAX_TTL, "dq_pmsg_by_ttl: ttl")
    IN A

\* A faulty dq_send_query(): dq->pending is not incremented.
dq_send_query_uncounted(S, s, n, ttl) ==
    LET pmi == Pmi(S, s, NodeDegree(n), MIN(NodeMaxTtl(n), ttl), n)
        B == dq_pmi_alloc(S, s, pmi.degree, pmi.ttl, n)
    IN Emit([B EXCEPT !.mq = @ \cup {pmi}],
            [type |-> "query", dq |-> s, node |-> n, ttl |-> pmi.ttl])

dq_send_query(S, s, n, ttl) ==
    LET A == g_assert(S, n \notin S.dqs[s].queried, "dq_send_query: queried")
        pmi == Pmi(A, s, NodeDegree(n), MIN(NodeMaxTtl(n), ttl), n)
        B == dq_pmi_alloc(A, s, pmi.degree, pmi.ttl, n)
        C == dq_pmsg_by_ttl(B, s, pmi.ttl)
        D == [C EXCEPT !.dqs[s].pending = U32(@ + 1), !.mq = @ \cup {pmi}]
    IN Emit(D, [type |-> "query", dq |-> s, node |-> n, ttl |-> pmi.ttl])

----------------------------------------------------------------------------
(* Termination and release                                                 *)

\* A faulty dq_terminate(): a cancelled query lingers like the others.
dq_terminate_linger(S, s) ==
    LET C == IF S.dqs[s].expire_ev
             THEN cq_resched(S, s, "dq_expired", DQ_LINGER_TIMEOUT)
             ELSE cq_insert(S, DQ_LINGER_TIMEOUT, "dq_expired", s)
    IN [C EXCEPT !.dqs[s].flags = (@ \ {"WAITING"}) \cup {"LINGER"}]

\* A faulty dq_terminate(): DQ_F_WAITING is left as it is.
dq_terminate_waiting(S, s) ==
    LET A == g_assert(S, ~Has(S, s, "LINGER"), "dq_terminate: linger")
        B == g_assert(A, ~A.dqs[s].results_ev, "dq_terminate: results_ev")
        delay == IF Has(B, s, "USR_CANCELLED") THEN 1 ELSE DQ_LINGER_TIMEOUT
        C == IF B.dqs[s].expire_ev
             THEN cq_resched(B, s, "dq_expired", delay)
             ELSE cq_insert(B, delay, "dq_expired", s)
    IN [C EXCEPT !.dqs[s].flags = @ \cup {"LINGER"}]

\* A faulty dq_terminate(): the expiration event is cancelled, none is armed.
dq_terminate_unarmed(S, s) ==
    LET A == g_assert(S, ~Has(S, s, "LINGER"), "dq_terminate: linger")
        B == g_assert(A, ~A.dqs[s].results_ev, "dq_terminate: results_ev")
        C == cq_cancel(B, s, "dq_expired")
    IN [C EXCEPT !.dqs[s].flags = (@ \ {"WAITING"}) \cup {"LINGER"}]

dq_terminate(S, s) ==
    LET A == g_assert(S, ~Has(S, s, "LINGER"), "dq_terminate: linger")
        B == g_assert(A, ~A.dqs[s].results_ev, "dq_terminate: results_ev")
        delay == IF Has(B, s, "USR_CANCELLED") THEN 1 ELSE DQ_LINGER_TIMEOUT
        C == IF B.dqs[s].expire_ev
             THEN cq_resched(B, s, "dq_expired", delay)
             ELSE cq_insert(B, delay, "dq_expired", s)
    IN [C EXCEPT !.dqs[s].flags = (@ \ {"WAITING"}) \cup {"LINGER"}]

RECURSIVE g_slist_remove(_, _)
g_slist_remove(list, x) ==
    IF list = <<>> THEN list
    ELSE IF Head(list) = x THEN Tail(list)
    ELSE <<Head(list)>> \o g_slist_remove(Tail(list), x)

\* g_hash_table_remove() on a table modelled as a function.
TableRemove(t, k) == [x \in (DOMAIN t) \ {k} |-> t[x]]
TableInsert(t, k, v) == [x \in (DOMAIN t) \cup {k} |-> IF x = k THEN v ELSE t[x]]

\* A faulty count of dq_free(): a query freed with its node is counted by
\* its results like the others.
Completed_by_results(dq) ==
    IF \/ dq.results >= dq.max_results
       \/ "USR_CANCELLED" \in dq.flags
       \/ dq.kept_results \div (IF dq.node_id = NODE_ID_SELF THEN 1 ELSE DQ_AVG_ULTRA_NODES)
             >= dq.max_results
    THEN "completed_full"
    ELSE IF dq.results > 0 THEN "completed_partial" ELSE "completed_zero"

\* The statistics counter dq_free() increments.
Completed(dq) ==
    IF \/ dq.results >= dq.max_results
       \/ dq.flags \cap {"USR_CANCELLED", "ID_CLEANING"} # {}
       \/ dq.kept_results \div (IF dq.node_id = NODE_ID_SELF THEN 1 ELSE DQ_AVG_ULTRA_NODES)
             >= dq.max_results
    THEN "completed_full"
    ELSE IF dq.results > 0 THEN "completed_partial" ELSE "completed_zero"

\* A faulty dq_free(): the query stays in the `by_node_id' table.
dq_free_by_node_id_skip(S, s) == S

\* dq_free(), the part that maintains the `by_node_id' table.  An entry of
\* the table is the list of the queries of a node; its key is the `node_id'
\* field of one of them, `key' here.
dq_free_by_node_id(S, s) ==
    LET dq == S.dqs[s] IN
    IF dq.node_id # NODE_ID_SELF /\ "ID_CLEANING" \notin dq.flags
    THEN IF dq.node_id \notin DOMAIN S.by_node_id
         THEN g_assert(S, FALSE, "dq_free: Missing")
         ELSE LET value == S.by_node_id[dq.node_id].list
                  list == g_slist_remove(value, s)
              IN IF list = <<>>
                 THEN [S EXCEPT !.by_node_id = TableRemove(@, dq.node_id)]
                 ELSE IF Head(list) # Head(value)
                 THEN [S EXCEPT !.by_node_id[dq.node_id] = [key |-> Head(list), list |-> list]]
                 ELSE [S EXCEPT !.by_node_id[dq.node_id].list = list]
    ELSE S

\* dq_free(), the part that maintains `by_muid' and `by_leaf_muid'.
\* A faulty dq_free(): the entry of the MUID is removed from `by_muid'
\* whichever query it maps to.
dq_free_muids_any(S, s) ==
    LET dq == S.dqs[s]
        A == IF dq.muid \in DOMAIN S.by_muid
             THEN [S EXCEPT !.by_muid = TableRemove(@, dq.muid)]
             ELSE S
    IN IF dq.lmuid # NULL /\ dq.lmuid \in DOMAIN A.by_leaf_muid /\ A.by_leaf_muid[dq.lmuid] = s
       THEN [A EXCEPT !.by_leaf_muid = TableRemove(@, dq.lmuid)]
       ELSE A

dq_free_muids(S, s) ==
    LET dq == S.dqs[s]
        A == IF dq.muid \in DOMAIN S.by_muid /\ S.by_muid[dq.muid] = s
             THEN [S EXCEPT !.by_muid = TableRemove(@, dq.muid)]
             ELSE S
    IN IF dq.lmuid # NULL /\ dq.lmuid \in DOMAIN A.by_leaf_muid /\ A.by_leaf_muid[dq.lmuid] = s
       THEN [A EXCEPT !.by_leaf_muid = TableRemove(@, dq.lmuid)]
       ELSE A

dq_free(S, s) ==
    LET A == g_assert(S, s \in S.dqueries, "dq_free: dqueries")
        B == cq_cancel(cq_cancel(A, s, "dq_results_expired"), s, "dq_expired")
        C == Emit(B, [type |-> "stat", dq |-> s, name |-> Completed(B.dqs[s])])
        D == [C EXCEPT !.dqueries = @ \ {s}]
        E == dq_free_muids(dq_free_by_node_id(D, s), s)
        F == g_assert(E, E.dqs[s].node_id \in DOMAIN E.by_node_id
                           => E.by_node_id[E.dqs[s].node_id].key # s,
                      "dq_free: &dq->node_id != key")
    IN [F EXCEPT !.dqs[s] = NoDq]

----------------------------------------------------------------------------
(* Candidate selection and the querying steps.  `env' is what the          *)
(* collaborators answer during the call:                                   *)
(*   elig  : the ultrapeers that are writable, have sent their handshaking *)
(*           ping, are not in TX flow-control and have hops_flow # 0       *)
(*   route : the nodes for which qrp_node_can_route() is true              *)
(*   order : the order in which qsort() leaves the candidates              *)
(*   kept  : search_get_kept_results_by_handle() of the local search       *)
(*   rtt   : alive_get_roundtrip_ms() of the originating leaf              *)
(*   ultra : current_peermode == NODE_P_ULTRA                              *)
(*   max_connections, normal_connections : the properties of these names  *)
(*   active: node_active_by_id() finds the originating leaf                *)

\* The loop of dq_select_ttl(): highest TTL whose horizon fits, 0 if none.
\* `via' = (needed / MAX(results_per_up, 0.000001)) / connections, kept as
\* the fraction num / den.
\* A faulty loop of dq_select_ttl(): the TTLs are tried from 1 up.
RECURSIVE select_ttl_loop_up(_, _, _, _, _)
select_ttl_loop_up(degree, ttl, max, num, den) ==
    IF ttl > max THEN 0
    ELSE IF dq_get_horizon(degree, ttl) * den <= num THEN ttl
    ELSE select_ttl_loop_up(degree, ttl + 1, max, num, den)

\* A faulty dq_select_ttl(): the lowest TTL that fits is selected.
dq_select_ttl_lowest(S, s, n, connections, kept) ==
    LET dq == S.dqs[s]
        results == dq_kept_results(S, s, kept)
        needed == U32(dq.max_results - results)
        results_per_up == dq.results \div MAX(dq.horizon, 1)
        num == IF results_per_up = 0 THEN needed * 1000000 ELSE needed
        den == IF results_per_up = 0 THEN connections ELSE results_per_up * connections
        ttl == select_ttl_loop_up(NodeDegree(n), 1, MIN(NodeMaxTtl(n), dq.ttl), num, den)
    IN IF ttl = 0 THEN MIN(NodeMaxTtl(n), dq.ttl) ELSE ttl

RECURSIVE select_ttl_loop(_, _, _, _)
select_ttl_loop(degree, ttl, num, den) ==
    IF ttl <= 0 THEN 0
    ELSE IF dq_get_horizon(degree, ttl) * den <= num THEN ttl
    ELSE select_ttl_loop(degree, ttl - 1, num, den)

dq_select_ttl(S, s, n, connections, kept) ==
    LET dq == S.dqs[s]
        results == dq_kept_results(S, s, kept)
        needed == U32(dq.max_results - results)
        results_per_up == dq.results \div MAX(dq.horizon, 1)
        num == IF results_per_up = 0 THEN needed * 1000000 ELSE needed
        den == IF results_per_up = 0 THEN connections ELSE results_per_up * connections
        ttl == select_ttl_loop(NodeDegree(n), MIN(NodeMaxTtl(n), dq.ttl), num, den)
    IN IF ttl = 0 THEN MIN(NodeMaxTtl(n), dq.ttl) ELSE ttl

\* The assertions of dq_select_ttl().
dq_select_ttl_check(S, s, n, connections, kept) ==
    LET A == g_assert(S, connections > 0, "dq_select_ttl: connections > 0")
        B == g_assert(A, U32(S.dqs[s].max_results - dq_kept_results(S, s, kept)) > 0,
                      "dq_select_ttl: needed > 0")
    IN g_assert(B, dq_select_ttl(S, s, n, connections, kept) > 0, "dq_select_ttl: ttl > 0")

dq_fill_probe_up(S, s, env) == {n \in UPs : n \in env.elig /\ n \in env.route}

dq_fill_next_up(S, s, env) == {n \in UPs : n \in env.elig /\ n \notin S.dqs[s].queried}

\* The candidates of `set' in the order qsort() left them.
Sorted(set, env) == SelectSeq(env.order, LAMBDA n : n \in set)

\* The selection loop of dq_send_next(): index of the first candidate that
\* is not skipped, 0 when all are.
\* A faulty selection loop of dq_send_next(): the first candidate is
\* selected, whatever its routing table says.
next_pick_first(S, s, nv, i, env) == IF i > Len(nv) THEN 0 ELSE i

RECURSIVE next_pick(_, _, _, _, _)
next_pick(S, s, nv, i, env) ==
    IF i > Len(nv) THEN 0
    ELSE IF /\ dq_select_ttl(S, s, nv[i], Len(nv), env.kept) = 1
            /\ NodeUpQrp(nv[i])
            /\ nv[i] \notin env.route
         THEN next_pick(S, s, nv, i + 1, env)
         ELSE i

\* A faulty end of dq_send_next(): the timeout is lowered whatever the
\* horizon and the results.
dq_send_next_to_impatient(S, s, n, found, results, env) ==
    LET A == dq_select_ttl_check(S, s, n, found, env.kept)
        B == dq_send_query(A, s, n, dq_select_ttl(S, s, n, found, env.kept))
        dq == B.dqs[s]
        C == [B EXCEPT !.dqs[s].result_timeout = MAX(DQ_MIN_TIMEOUT, U32(@ - DQ_TIMEOUT_ADJUST))]
        timeout == C.dqs[s].result_timeout +
                   (IF dq.pending > 1 THEN (dq.pending - 1) * DQ_PENDING_TIMEOUT ELSE 0)
    IN cq_insert(C, timeout, "dq_results_expired", s)

\* dq_send_next(), from the dispatch of the query to the selected node on.
dq_send_next_to(S, s, n, found, results, env) ==
    LET A == dq_select_ttl_check(S, s, n, found, env.kept)
        B == dq_send_query(A, s, n, dq_select_ttl(S, s, n, found, env.kept))
        dq == B.dqs[s]
        C == IF /\ dq.horizon > DQ_MIN_HORIZON
                /\ results < U32(DQ_LOW_RESULTS * dq.horizon) \div DQ_MIN_HORIZON
             THEN [B EXCEPT !.dqs[s].result_timeout = MAX(DQ_MIN_TIMEOUT, U32(@ - DQ_TIMEOUT_ADJUST))]
             ELSE B
        timeout == C.dqs[s].result_timeout +
                   (IF dq.pending > 1 THEN (dq.pending - 1) * DQ_PENDING_TIMEOUT ELSE 0)
    IN cq_insert(C, timeout, "dq_results_expired", s)

\* A faulty dq_send_next(): the number of ultrapeers queried is not held
\* against the configured maximum.
dq_send_next_unbounded(S, s, env) ==
    LET A == g_assert(S, ~S.dqs[s].results_ev, "dq_send_next: results_ev")
        results == dq_kept_results(A, s, env.kept)
        B == dq_kept_results_upd(A, s, env.kept)
        dq == B.dqs[s]
        nv == Sorted(dq_fill_next_up(B, s, env), env)
        i == next_pick(B, s, nv, 1, env)
    IN IF ~env.ultra THEN dq_terminate(A, s)
       ELSE IF dq.horizon >= DQ_MAX_HORIZON \/ results >= dq.max_results THEN dq_terminate(B, s)
       ELSE IF U32(dq.results + dq.oob_results) > dq.fin_results THEN dq_terminate(B, s)
       ELSE IF dq.pending >= DQ_MAX_PENDING
            THEN cq_insert(B, dq.result_timeout, "dq_results_expired", s)
       ELSE IF Len(nv) = 0 THEN dq_terminate(B, s)
       ELSE IF i = 0 THEN dq_terminate(B, s)
       ELSE dq_send_next_to(B, s, nv[i], Len(nv), results, env)

\* A faulty dq_send_next(): with 3 messages pending, the step returns and
\* arms nothing.
dq_send_next_unarmed(S, s, env) ==
    LET A == g_assert(S, ~S.dqs[s].results_ev, "dq_send_next: results_ev")
        results == dq_kept_results(A, s, env.kept)
        B == dq_kept_results_upd(A, s, env.kept)
        dq == B.dqs[s]
        nv == Sorted(dq_fill_next_up(B, s, env), env)
        i == next_pick(B, s, nv, 1, env)
    IN IF ~env.ultra THEN dq_terminate(A, s)
       ELSE IF dq.horizon >= DQ_MAX_HORIZON \/ results >= dq.max_results THEN dq_terminate(B, s)
       ELSE IF U32(dq.results + dq.oob_results) > dq.fin_results THEN dq_terminate(B, s)
       ELSE IF dq.up_sent >= U32(env.max_connections - env.normal_connections) THEN dq_terminate(B, s)
       ELSE IF dq.pending >= DQ_MAX_PENDING THEN B
       ELSE IF Len(nv) = 0 THEN dq_terminate(B, s)
       ELSE IF i = 0 THEN dq_terminate(B, s)
       ELSE dq_send_next_to(B, s, nv[i], Len(nv), results, env)

\* A faulty dq_send_next(): the messages still queued are not counted
\* before one more is sent.
dq_send_next_eager(S, s, env) ==
    LET A == g_assert(S, ~S.dqs[s].results_ev, "dq_send_next: results_ev")
        results == dq_kept_results(A, s, env.kept)
        B == dq_kept_results_upd(A, s, env.kept)
        dq == B.dqs[s]
        nv == Sorted(dq_fill_next_up(B, s, env), env)
        i == next_pick(B, s, nv, 1, env)
    IN IF ~env.ultra THEN dq_terminate(A, s)
       ELSE IF dq.horizon >= DQ_MAX_HORIZON \/ results >= dq.max_results THEN dq_terminate(B, s)
       ELSE IF U32(dq.results + dq.oob_results) > dq.fin_results THEN dq_terminate(B, s)
       ELSE IF dq.up_sent >= U32(env.max_connections - env.normal_connections) THEN dq_terminate(B, s)
       ELSE IF Len(nv) = 0 THEN dq_terminate(B, s)
       ELSE IF i = 0 THEN dq_terminate(B, s)
       ELSE dq_send_next_to(B, s, nv[i], Len(nv), results, env)

dq_send_next(S, s, env) ==
    LET A == g_assert(S, ~S.dqs[s].results_ev, "dq_send_next: results_ev")
        results == dq_kept_results(A, s, env.kept)
        B == dq_kept_results_upd(A, s, env.kept)
        dq == B.dqs[s]
        nv == Sorted(dq_fill_next_up(B, s, env), env)
        i == next_pick(B, s, nv, 1, env)
    IN IF ~env.ultra THEN dq_terminate(A, s)
       ELSE IF dq.horizon >= DQ_MAX_HORIZON \/ results >= dq.max_results THEN dq_terminate(B, s)
       ELSE IF U32(dq.results + dq.oob_results) > dq.fin_results THEN dq_terminate(B, s)
       ELSE IF dq.up_sent >= U32(env.max_connections - env.normal_connections) THEN dq_terminate(B, s)
       ELSE IF dq.pending >= DQ_MAX_PENDING
            THEN cq_insert(B, dq.result_timeout, "dq_results_expired", s)
       ELSE IF Len(nv) = 0 THEN dq_terminate(B, s)
       ELSE IF i = 0 THEN dq_terminate(B, s)
       ELSE dq_send_next_to(B, s, nv[i], Len(nv), results, env)

\* The sending loop of dq_send_probe().
RECURSIVE probe_loop(_, _, _, _, _)
probe_loop(S, s, nv, i, ttl) ==
    IF i > DQ_PROBE_UP \/ i > Len(nv) THEN S
    ELSE probe_loop(dq_send_query(S, s, nv[i], ttl), s, nv, i + 1, ttl)

\* A faulty dq_send_probe(): a query that no ultrapeer can route is ended.
dq_send_probe_gives_up(S, s, env) ==
    LET A == g_assert(S, ~S.dqs[s].results_ev, "dq_send_probe: results_ev")
        nv == Sorted(dq_fill_probe_up(A, s, env), env)
        found == Len(nv)
        ttl == MAX(A.dqs[s].ttl - (IF found > 6 * DQ_PROBE_UP THEN 1 ELSE 0)
                               - (IF found > 3 * DQ_PROBE_UP THEN 1 ELSE 0), 1)
        B == probe_loop(A, s, nv, 1, ttl)
    IN IF found = 0 THEN dq_terminate(A, s)
       ELSE cq_insert(B, MIN(found, DQ_PROBE_UP) * (DQ_PROBE_TIMEOUT + B.dqs[s].result_timeout),
                      "dq_results_expired", s)

\* A faulty dq_send_probe(): the watchdog waits for DQ_PROBE_UP nodes,
\* however few were found.
dq_send_probe_full_wait(S, s, env) ==
    LET A == g_assert(S, ~S.dqs[s].results_ev, "dq_send_probe: results_ev")
        nv == Sorted(dq_fill_probe_up(A, s, env), env)
        found == Len(nv)
        ttl == MAX(A.dqs[s].ttl - (IF found > 6 * DQ_PROBE_UP THEN 1 ELSE 0)
                               - (IF found > 3 * DQ_PROBE_UP THEN 1 ELSE 0), 1)
        B == probe_loop(A, s, nv, 1, ttl)
    IN IF found = 0 THEN dq_send_next(A, s, env)
       ELSE cq_insert(B, DQ_PROBE_UP * (DQ_PROBE_TIMEOUT + B.dqs[s].result_timeout),
                      "dq_results_expired", s)

dq_send_probe(S, s, env) ==
    LET A == g_assert(S, ~S.dqs[s].results_ev, "dq_send_probe: results_ev")
        nv == Sorted(dq_fill_probe_up(A, s, env), env)
        found == Len(nv)
        ttl == MAX(A.dqs[s].ttl - (IF found > 6 * DQ_PROBE_UP THEN 1 ELSE 0)
                               - (IF found > 3 * DQ_PROBE_UP THEN 1 ELSE 0), 1)
        B == probe_loop(A, s, nv, 1, ttl)
    IN IF found = 0 THEN dq_send_next(A, s, env)
       ELSE cq_insert(B, MIN(found, DQ_PROBE_UP) * (DQ_PROBE_TIMEOUT + B.dqs[s].result_timeout),
                      "dq_results_expired", s)

\* A faulty handling of a status request that timed out: the timeout is not
\* counted.
status_timeout_uncounted(S, s) ==
    LET A == [S EXCEPT !.dqs[s].flags = @ \ {"WAITING"}]
    IN IF ~Has(A, s, "GOT_GUIDANCE") /\ A.dqs[s].stat_timeouts >= DQ_MAX_STAT_TIMEOUT
       THEN Emit([A EXCEPT !.dqs[s].flags = @ \ {"LEAF_GUIDED"}],
                 [type |-> "leaf_guidance", node |-> A.dqs[s].node_id, on |-> FALSE])
       ELSE A

\* dq_results_expired(), the handling of a status request that timed out.
status_timeout(S, s) ==
    LET A == [S EXCEPT !.dqs[s].stat_timeouts = U32(@ + 1),
                       !.dqs[s].flags = @ \ {"WAITING"}]
    IN IF ~Has(A, s, "GOT_GUIDANCE") /\ A.dqs[s].stat_timeouts >= DQ_MAX_STAT_TIMEOUT
       THEN Emit([A EXCEPT !.dqs[s].flags = @ \ {"LEAF_GUIDED"}],
                 [type |-> "leaf_guidance", node |-> A.dqs[s].node_id, on |-> FALSE])
       ELSE A

\* A faulty request for a query status: the MUID of the query on the wire
\* is sent to the leaf, whatever MUID the leaf knows.
status_request_wire_muid(S, s, env) ==
    LET dq == S.dqs[s]
        A == g_assert(S, dq.node_id # NODE_ID_SELF, "dq_results_expired: node_id")
        B == Emit([A EXCEPT !.dqs[s].flags = @ \cup {"WAITING"}],
                  [type |-> "qstat_req", dq |-> s, node |-> dq.node_id, muid |-> dq.muid])
        timeout == MAX((env.rtt[1] + env.rtt[2]) \div 2000, DQ_STATUS_TIMEOUT)
    IN IF dq.node_id = NODE_ID_SELF THEN A
       ELSE IF ~env.active THEN dq_free(A, s)
       ELSE cq_insert(B, timeout, "dq_results_expired", s)

\* dq_results_expired(), the request for a query status.
status_request(S, s, env) ==
    LET dq == S.dqs[s]
        A == g_assert(S, dq.node_id # NODE_ID_SELF, "dq_results_expired: node_id")
        B == Emit([A EXCEPT !.dqs[s].flags = @ \cup {"WAITING"}],
                  [type |-> "qstat_req", dq |-> s, node |-> dq.node_id,
                   muid |-> IF dq.lmuid # NULL THEN dq.lmuid ELSE dq.muid])
        timeout == MAX((env.rtt[1] + env.rtt[2]) \div 2000, DQ_STATUS_TIMEOUT)
    IN IF dq.node_id = NODE_ID_SELF THEN A
       ELSE IF ~env.active THEN dq_free(A, s)
       ELSE cq_insert(B, timeout, "dq_results_expired", s)

\* A faulty dq_results_expired(): a query that is neither leaf-guided nor
\* routing its hits goes on to the iteration step.
dq_results_expired_iterates(S, s, env) ==
    LET A == g_assert(S, ~Has(S, s, "LINGER"), "dq_results_expired: linger")
        B == [A EXCEPT !.dqs[s].results_ev = FALSE]
        was_waiting == Has(B, s, "WAITING")
        C == IF was_waiting THEN status_timeout(B, s) ELSE B
        dq == C.dqs[s]
    IN IF \/ was_waiting
          \/ "LEAF_GUIDED" \notin dq.flags
          \/ U32(dq.up_sent - dq.last_status) < DQ_STAT_THRESHOLD
          \/ ("ROUTING_HITS" \in dq.flags /\ dq.new_results < DQ_MIN_FOR_GUIDANCE)
       THEN dq_send_next(C, s, env)
       ELSE status_request(C, s, env)

dq_results_expired(S, s, env) ==
    LET A == g_assert(S, ~Has(S, s, "LINGER"), "dq_results_expired: linger")
        B == [A EXCEPT !.dqs[s].results_ev = FALSE]
        was_waiting == Has(B, s, "WAITING")
        C == IF was_waiting THEN status_timeout(B, s) ELSE B
        dq == C.dqs[s]
    IN IF dq.flags \cap {"LEAF_GUIDED", "ROUTING_HITS"} = {} THEN dq_terminate(C, s)
       ELSE IF \/ was_waiting
               \/ "LEAF_GUIDED" \notin dq.flags
               \/ U32(dq.up_sent - dq.last_status) < DQ_STAT_THRESHOLD
               \/ ("ROUTING_HITS" \in dq.flags /\ dq.new_results < DQ_MIN_FOR_GUIDANCE)
            THEN dq_send_next(C, s, env)
       ELSE status_request(C, s, env)

\* A faulty dq_expired(): the query is freed, lingering or not.
dq_expired_free(S, s) == dq_free([S EXCEPT !.dqs[s].expire_ev = FALSE], s)

dq_expired(S, s) ==
    LET A == [S EXCEPT !.dqs[s].expire_ev = FALSE]
    IN IF Has(A, s, "LINGER") THEN dq_free(A, s)
       ELSE dq_terminate(cq_cancel(A, s, "dq_results_expired"), s)

----------------------------------------------------------------------------
(* Creation                                                                *)

\* walloc0(sizeof(*dq)) and the fields the launch routines set.
NewDq(node_id, sh, muid, lmuid, flags, query_flags, ttl, max_results) ==
    [magic |-> DQUERY_MAGIC, node_id |-> node_id, qid |-> 0, flags |-> flags, sh |-> sh,
     muid |-> muid, lmuid |-> lmuid, query_flags |-> query_flags, ttl |-> ttl,
     queried |-> {}, horizon |-> 0, up_sent |-> 0, last_status |-> 0, pending |-> 0,
     max_results |-> max_results,
     fin_results |-> (max_results * 100) \div DQ_PERCENT_KEPT,
     oob_results |-> 0, results |-> 0, linger_results |-> 0, new_results |-> 0,
     kept_results |-> 0, result_timeout |-> 0, stat_timeouts |-> 0,
     expire_ev |-> FALSE, results_ev |-> FALSE]

\* dq_common_init(), the insertion in `by_node_id'.
dq_common_init_by_node_id(S, s) ==
    LET id == S.dqs[s].node_id IN
    IF id = NODE_ID_SELF THEN S
    ELSE IF id \in DOMAIN S.by_node_id
         THEN LET list == S.by_node_id[id].list
              IN [S EXCEPT !.by_node_id[id].list = <<Head(list), s>> \o Tail(list)]
         ELSE [S EXCEPT !.by_node_id = TableInsert(@, id, [key |-> s, list |-> <<s>>])]

\* dq_common_init(), the insertion in `by_muid' and `by_leaf_muid'.
dq_common_init_muids(S, s) ==
    LET dq == S.dqs[s]
        A == IF dq.muid \in DOMAIN S.by_muid
             THEN Emit(S, [type |-> "warning", what |-> "conflicting MUID"])
             ELSE [S EXCEPT !.by_muid = TableInsert(@, dq.muid, s)]
    IN IF dq.lmuid = NULL THEN A
       ELSE IF dq.lmuid \in DOMAIN A.by_leaf_muid
            THEN Emit(A, [type |-> "warning", what |-> "conflicting leaf MUID"])
            ELSE [A EXCEPT !.by_leaf_muid = TableInsert(@, dq.lmuid, s)]

\* A faulty dq_common_init(): the query is not recorded in `dqueries'.
dq_common_init_unrecorded(S, s) ==
    LET A == [S EXCEPT !.dqs[s].qid = S.dyn_query_id,
                       !.dyn_query_id = U32(@ + 1),
                       !.dqs[s].queried = {},
                       !.dqs[s].result_timeout = DQ_QUERY_TIMEOUT]
        B == cq_insert(A, DQ_MAX_LIFETIME, "dq_expired", s)
    IN dq_common_init_muids(dq_common_init_by_node_id(B, s), s)

dq_common_init(S, s) ==
    LET A == [S EXCEPT !.dqs[s].qid = S.dyn_query_id,
                       !.dyn_query_id = U32(@ + 1),
                       !.dqs[s].queried = {},
                       !.dqs[s].result_timeout = DQ_QUERY_TIMEOUT]
        B == cq_insert(A, DQ_MAX_LIFETIME, "dq_expired", s)
        C == [B EXCEPT !.dqueries = @ \cup {s}]
    IN dq_common_init_muids(dq_common_init_by_node_id(C, s), s)

\* `in' is the query received from leaf n and what the node knows of it:
\*   muid, ttl : MUID and TTL of the header;  speed : the speed field
\*   urn       : qhvec_has_urn()
\*   guide     : NODE_LEAF_GUIDE(n)
\*   proxied   : the query was OOB-proxied before the call
\*   can_proxy : udp_active() && proxy_oob_queries && !is_udp_firewalled &&
\*               host_is_valid(...)
\*   orig      : once OOB-proxied, the MUID the leaf knows (`muid' is then
\*               the MUID the proxy put in the header)
dq_launch_net(S, s, n, in, env) ==
    LET tagged_speed == "MARK" \in in.speed
        leaf_guided == (tagged_speed /\ "LEAF_GUIDED" \in in.speed) \/ in.guide
        create == ~leaf_guided /\ ~in.proxied /\ in.can_proxy
        strip == ~leaf_guided /\ ~in.proxied /\ ~in.can_proxy
                 /\ tagged_speed /\ "OOB_REPLY" \in in.speed
        req_speed == IF strip THEN in.speed \ {"OOB_REPLY"} ELSE in.speed
        proxied == in.proxied \/ create
        \* (tagged_speed && !(req_speed && QUERY_SPEED_OOB_REPLY)): a logical
        \* AND of two integers, and QUERY_SPEED_OOB_REPLY is not 0
        routing == proxied \/ (tagged_speed /\ ~(req_speed # {} /\ TRUE))
        flags == (IF leaf_guided THEN {"LEAF_GUIDED"} ELSE {})
                 \cup (IF routing THEN {"ROUTING_HITS"} ELSE {})
        max_results == IF in.urn THEN DQ_LEAF_RESULTS \div DQ_SHA1_DECIMATOR
                       ELSE DQ_LEAF_RESULTS
        dq == NewDq(n, 0, in.muid, IF proxied THEN in.orig ELSE NULL, flags,
                    IF tagged_speed THEN req_speed ELSE {},
                    MIN(in.ttl, DQ_MAX_TTL), max_results)
        A == IF create THEN Emit(S, [type |-> "stat", dq |-> s, name |-> "oob_proxied_queries"])
             ELSE S
        B == Emit([A EXCEPT !.dqs[s] = dq], [type |-> "stat", dq |-> s, name |-> "leaf_dyn_queries"])
    IN dq_send_probe(dq_common_init(B, s), s, env)

dq_launch_local(S, s, handle, in, env) ==
    LET max_results == IF in.urn THEN DQ_LOCAL_RESULTS \div DQ_SHA1_DECIMATOR
                       ELSE DQ_LOCAL_RESULTS
        dq == NewDq(NODE_ID_SELF, handle, in.muid, NULL, {"ROUTING_HITS"}, {},
                    MIN(in.ttl, DQ_MAX_TTL), max_results)
        A == Emit([S EXCEPT !.dqs[s] = dq], [type |-> "stat", dq |-> s, name |-> "local_dyn_queries"])
    IN IF ~env.ultra THEN S
       ELSE dq_send_probe(dq_common_init(A, s), s, env)

----------------------------------------------------------------------------
(* Removal of the originator, closing of the search                        *)

RECURSIVE free_list(_, _, _)
free_list(S, list, cleaning) ==
    IF list = <<>> THEN S
    ELSE LET s == Head(list)
             A == IF cleaning THEN [S EXCEPT !.dqs[s].flags = @ \cup {"ID_CLEANING"}] ELSE S
         IN free_list(dq_free(A, s), Tail(list), cleaning)

\* A faulty dq_node_removed(): only the first query of the list is freed.
dq_node_removed_first(S, node_id) ==
    IF node_id \notin DOMAIN S.by_node_id THEN S
    ELSE free_list([S EXCEPT !.by_node_id = TableRemove(@, node_id)],
                   <<Head(S.by_node_id[node_id].list)>>, TRUE)

dq_node_removed(S, node_id) ==
    IF node_id \notin DOMAIN S.by_node_id THEN S
    ELSE free_list([S EXCEPT !.by_node_id = TableRemove(@, node_id)],
                   S.by_node_id[node_id].list, TRUE)

\* dq_cancel_local() over `dqueries': the queries to cancel, as a list.
RECURSIVE SetToSeq(_)
SetToSeq(set) ==
    IF set = {} THEN <<>>
    ELSE LET x == CHOOSE y \in set : \A z \in set : y <= z
         IN <<x>> \o SetToSeq(set \ {x})

\* A faulty dq_cancel_local(): the search handle is not compared.
dq_cancel_local_any(S, handle) == {s \in S.dqueries : S.dqs[s].node_id = NODE_ID_SELF}

dq_cancel_local(S, handle) ==
    {s \in S.dqueries : S.dqs[s].node_id = NODE_ID_SELF /\ S.dqs[s].sh = handle}

dq_search_closed(S, handle) == free_list(S, SetToSeq(dq_cancel_local(S, handle)), FALSE)

----------------------------------------------------------------------------
(* Results, OOB indications, query status                                  *)

Return(S, v) == Emit(S, [type |-> "return", val |-> v])

\* A faulty firewall test: the hits are held useless only when neither the
\* replying host nor the requester supports firewall-to-firewall transfers.
FirewallDrop_neither(dq, status, oob) ==
    /\ ~oob
    /\ status \cap {"FIREWALL", "FW2FW"} = {"FIREWALL"}
    /\ dq.query_flags \cap {"FIREWALLED", "FW_TO_FW"} = {"FIREWALLED"}

\* The hits that are useless to a firewalled requester.
FirewallDrop(dq, status, oob) ==
    /\ ~oob
    /\ \/ /\ "FIREWALL" \in status
          /\ dq.query_flags \cap {"FIREWALLED", "FW_TO_FW"} = {"FIREWALLED"}
       \/ /\ status \cap {"FIREWALL", "FW2FW"} = {"FIREWALL"}
          /\ "FIREWALLED" \in dq.query_flags

\* A faulty dq_count_results(): DQ_F_LINGER is not looked at.
dq_count_results_no_linger(S, muid, count, status, oob) ==
    IF muid \notin DOMAIN S.by_muid THEN Return(S, TRUE)
    ELSE LET s == S.by_muid[muid]
             dq == S.dqs[s]
             A == IF oob THEN [S EXCEPT !.dqs[s].oob_results = U32(@ + count)]
                  ELSE [S EXCEPT !.dqs[s].results = U32(@ + count),
                                 !.dqs[s].new_results = U32(@ + count)]
         IN IF FirewallDrop(dq, status, oob) THEN Return(S, FALSE)
            ELSE Return(A, "USR_CANCELLED" \notin dq.flags)

\* A faulty dq_count_results(): DQ_F_USR_CANCELLED is not looked at.
dq_count_results_forward(S, muid, count, status, oob) ==
    IF muid \notin DOMAIN S.by_muid THEN Return(S, TRUE)
    ELSE LET s == S.by_muid[muid]
             dq == S.dqs[s]
             A == IF "LINGER" \in dq.flags
                  THEN [S EXCEPT !.dqs[s].linger_results = U32(@ + count)]
                  ELSE IF oob THEN [S EXCEPT !.dqs[s].oob_results = U32(@ + count)]
                  ELSE [S EXCEPT !.dqs[s].results = U32(@ + count),
                                 !.dqs[s].new_results = U32(@ + count)]
         IN IF FirewallDrop(dq, status, oob) THEN Return(S, FALSE)
            ELSE Return(A, TRUE)

dq_count_results(S, muid, count, status, oob) ==
    IF muid \notin DOMAIN S.by_muid THEN Return(S, TRUE)
    ELSE LET s == S.by_muid[muid]
             dq == S.dqs[s]
             A == IF "LINGER" \in dq.flags
                  THEN [S EXCEPT !.dqs[s].linger_results = U32(@ + count)]
                  ELSE IF oob THEN [S EXCEPT !.dqs[s].oob_results = U32(@ + count)]
                  ELSE [S EXCEPT !.dqs[s].results = U32(@ + count),
                                 !.dqs[s].new_results = U32(@ + count)]
         IN IF FirewallDrop(dq, status, oob) THEN Return(S, FALSE)
            ELSE Return(A, "USR_CANCELLED" \notin dq.flags)

dq_got_results(S, muid, count, status) == dq_count_results(S, muid, count, status, FALSE)

\* A faulty dq_oob_results_ind(): the hits are counted as received ones.
dq_oob_results_ind_direct(S, muid, count) == dq_count_results(S, muid, count, {}, FALSE)

dq_oob_results_ind(S, muid, count) == dq_count_results(S, muid, count, {}, TRUE)

dq_oob_results_got(S, muid, count) ==
    IF muid \notin DOMAIN S.by_muid THEN S
    ELSE LET s == S.by_muid[muid]
         IN IF S.dqs[s].oob_results > count
            THEN [S EXCEPT !.dqs[s].oob_results = @ - count]
            ELSE [S EXCEPT !.dqs[s].oob_results = 0]

\* The query dq_got_query_status() finds for a MUID, 0 if none.
status_lookup(S, muid) ==
    IF muid \in DOMAIN S.by_muid THEN S.by_muid[muid]
    ELSE IF muid \in DOMAIN S.by_leaf_muid THEN S.by_leaf_muid[muid]
    ELSE 0

\* A faulty dq_got_query_status(): a query that waits for its status is not
\* resumed when the status comes.
status_accept_no_resume(S, s, node_id, kept, env) ==
    LET A == [S EXCEPT !.dqs[s].kept_results = kept,
                       !.dqs[s].flags = @ \cup {"GOT_GUIDANCE"},
                       !.dqs[s].last_status = S.dqs[s].up_sent,
                       !.dqs[s].new_results = 0]
        B == IF ~Has(A, s, "WAITING") /\ ~Has(A, s, "LEAF_GUIDED")
             THEN Emit([A EXCEPT !.dqs[s].flags = @ \cup {"LEAF_GUIDED"}],
                       [type |-> "leaf_guidance", node |-> node_id, on |-> TRUE])
             ELSE A
        C == [B EXCEPT !.dqs[s].flags = @ \cup {"USR_CANCELLED"}]
    IN IF kept = KEPT_STOP
       THEN IF ~Has(C, s, "LINGER")
            THEN dq_terminate(cq_cancel(C, s, "dq_results_expired"), s)
            ELSE C
       ELSE B

\* dq_got_query_status(), once the query is found and its origin checked.
status_accept(S, s, node_id, kept, env) ==
    LET A == [S EXCEPT !.dqs[s].kept_results = kept,
                       !.dqs[s].flags = @ \cup {"GOT_GUIDANCE"},
                       !.dqs[s].last_status = S.dqs[s].up_sent,
                       !.dqs[s].new_results = 0]
        B == IF ~Has(A, s, "WAITING") /\ ~Has(A, s, "LEAF_GUIDED")
             THEN Emit([A EXCEPT !.dqs[s].flags = @ \cup {"LEAF_GUIDED"}],
                       [type |-> "leaf_guidance", node |-> node_id, on |-> TRUE])
             ELSE A
        C == [B EXCEPT !.dqs[s].flags = @ \cup {"USR_CANCELLED"}]
        D == g_assert(B, B.dqs[s].results_ev, "dq_got_query_status: results_ev")
        E == cq_cancel(D, s, "dq_results_expired")
    IN IF kept = KEPT_STOP
       THEN IF ~Has(C, s, "LINGER")
            THEN dq_terminate(cq_cancel(C, s, "dq_results_expired"), s)
            ELSE C
       ELSE IF Has(B, s, "WAITING")
            THEN dq_send_next([E EXCEPT !.dqs[s].flags = @ \ {"WAITING"}], s, env)
            ELSE B

\* A faulty dq_got_query_status(): the sender of the status is not checked.
dq_got_query_status_any_node(S, muid, node_id, kept, env) ==
    LET s == status_lookup(S, muid) IN
    IF s = 0 THEN S
    ELSE status_accept(S, s, S.dqs[s].node_id, kept, env)

dq_got_query_status(S, muid, node_id, kept, env) ==
    LET s == status_lookup(S, muid) IN
    IF s = 0 THEN S
    ELSE IF S.dqs[s].node_id # node_id THEN S
    ELSE status_accept(S, s, node_id, kept, env)

\* A faulty dq_get_results_wanted(): the count the leaf reported is compared
\* with max_results as it is, not averaged over the ultrapeers of the leaf.
dq_get_results_wanted_raw(S, muid, kept_local) ==
    IF muid \notin DOMAIN S.by_muid THEN Return(S, FALSE)
    ELSE LET s == S.by_muid[muid]
             dq == S.dqs[s]
             A == dq_kept_results_upd(S, s, kept_local)
             kept == A.dqs[s].kept_results
             wanted == IF kept < dq.max_results THEN dq.max_results - kept
                       ELSE IF "GOT_GUIDANCE" \in dq.flags
                               /\ A.dqs[s].kept_results < dq.fin_results THEN 1
                       ELSE 0
         IN IF "USR_CANCELLED" \in dq.flags
            THEN Emit(Return(S, TRUE), [type |-> "wanted", n |-> 0])
            ELSE Emit(Return(A, TRUE), [type |-> "wanted", n |-> wanted])

dq_get_results_wanted(S, muid, kept_local) ==
    IF muid \notin DOMAIN S.by_muid THEN Return(S, FALSE)
    ELSE LET s == S.by_muid[muid]
             dq == S.dqs[s]
             kept == dq_kept_results(S, s, kept_local)
             A == dq_kept_results_upd(S, s, kept_local)
             wanted == IF kept < dq.max_results THEN dq.max_results - kept
                       ELSE IF "GOT_GUIDANCE" \in dq.flags
                               /\ A.dqs[s].kept_results < dq.fin_results THEN 1
                       ELSE 0
         IN IF "USR_CANCELLED" \in dq.flags
            THEN Emit(Return(S, TRUE), [type |-> "wanted", n |-> 0])
            ELSE Emit(Return(A, TRUE), [type |-> "wanted", n |-> wanted])

----------------------------------------------------------------------------
(* The state machine                                                       *)

State ==
    [dqs |-> dqs, dqueries |-> dqueries, by_node_id |-> by_node_id, by_muid |-> by_muid,
     by_leaf_muid |-> by_leaf_muid, cq |-> callout_queue, mq |-> mq,
     dyn_query_id |-> dyn_query_id, failed |-> failed, out |-> {}]

Commit(S, op) ==
    /\ dqs' = S.dqs
    /\ dqueries' = S.dqueries
    /\ by_node_id' = S.by_node_id
    /\ by_muid' = S.by_muid
    /\ by_leaf_muid' = S.by_leaf_muid
    /\ callout_queue' = S.cq
    /\ mq' = S.mq
    /\ dyn_query_id' = S.dyn_query_id
    /\ failed' = S.failed
    /\ world' = world
    /\ last' = [op |-> op, out |-> S.out]

EmptyTable == [x \in {} |-> 0]

\* The state after dq_init(), in the world w.
InitIn(w) ==
    /\ dqs = [s \in Slots |-> NoDq]
    /\ dqueries = {}
    /\ by_node_id = EmptyTable
    /\ by_muid = EmptyTable
    /\ by_leaf_muid = EmptyTable
    /\ callout_queue = {}
    /\ mq = {}
    /\ dyn_query_id = 0
    /\ failed = {}
    /\ world = w
    /\ last = [op |-> "dq_init", out |-> {}]

CMP(a, b) == IF a = b THEN 0 ELSE IF a < b THEN -1 ELSE 1

node_mq_cmp(qs, n1, n2) == CMP(qs[n1], qs[n2])

\* qsort() with node_mq_cmp() leaves the vector in an order the comparison
\* routine accepts, for the queue sizes qs of the nodes.
qsort_ok(nv, qs) == \A i, j \in DOMAIN nv : i < j => node_mq_cmp(qs, nv[i], nv[j]) <= 0

\* node_mq_qrp_cmp() on two entries whose queue sizes are qs1 and qs2 and
\* whose nodes admit the query (can1, can2) or not.
node_mq_qrp_cmp(qs1, can1, qs2, can2) ==
    IF (IF qs1 < qs2 THEN qs2 - qs1 ELSE qs1 - qs2) < DQ_MQ_EPSILON
    THEN IF can1 = can2 THEN CMP(qs1, qs2)
         ELSE IF can1 THEN -1 ELSE 1
    ELSE IF qs1 < qs2 THEN -1 ELSE 1

\* qsort() with node_mq_qrp_cmp() leaves the vector in an order that the
\* comparison routine accepts, for the queue sizes qs of the nodes and the
\* nodes `route' that admit the query.
qsort_qrp_ok(nv, qs, route) ==
    \A i, j \in DOMAIN nv :
       i < j => node_mq_qrp_cmp(qs[nv[i]], nv[i] \in route, qs[nv[j]], nv[j] \in route) <= 0

NoEnv == [elig |-> {}, route |-> {}, order |-> <<>>, kept |-> 0, rtt |-> <<0, 0>>,
          ultra |-> TRUE, active |-> TRUE, max_connections |-> 0, normal_connections |-> 0]

\* What the collaborators may answer to a handler working on a query that
\* has queried `queried'; `local': the query is a local one.
Envs(queried, local) ==
    UNION {{[elig |-> e, route |-> r, order |-> o, kept |-> k, rtt |-> t,
             ultra |-> u, active |-> a,
             max_connections |-> world.max_connections,
             normal_connections |-> world.normal_connections] :
              o \in Perms(e \ queried),
              k \in (IF local THEN world.lkepts ELSE {0}),
              t \in (IF local THEN {<<0, 0>>} ELSE world.rtts),
              u \in world.ultra,
              a \in (IF local THEN {TRUE} ELSE world.active)} :
           <<e, r>> \in world.eligs \X world.routes}

\* The probe sorts with node_mq_cmp(); dq_send_next() sorts with
\* node_mq_qrp_cmp() on `queue_pending' fields that dq_fill_next_up() leaves
\* uninitialized in memory that walloc() does not clear: any order.
ProbeOrderOk(env) ==
    LET nv == Sorted(env.elig \cap env.route, env)
    IN \E qs \in world.qsizes : qsort_ok(nv, qs)

Running == failed = {}

\* walloc() reuses the memory that dq_free() released: a new query gets the
\* lowest address that holds no query.
walloc == CHOOSE s \in world.slots \ dqueries : \A r \in world.slots \ dqueries : s <= r

\* The leaves, MUIDs and search handles of the world; those of the k-th
\* launch are the k-th sets of world.leaves, world.guids and world.handles
\* (the last ones, for the launches past the end).
Nth(seq, k) == seq[MIN(k, Len(seq))]
Leaves == UNION {world.leaves[k] : k \in DOMAIN world.leaves}
GUIDs == UNION {world.guids[k] : k \in DOMAIN world.guids}
Handles == UNION {world.handles[k] : k \in DOMAIN world.handles}

LaunchNet ==
    /\ Running
    /\ dyn_query_id < world.max_queries
    /\ world.slots \ dqueries # {}
    /\ \E n \in Nth(world.leaves, dyn_query_id + 1), muid \in Nth(world.guids, dyn_query_id + 1),
          ttl \in world.ttls, speed \in world.speeds, urn \in world.urns,
          px \in world.proxies, env \in Envs({}, FALSE) :
         /\ ProbeOrderOk(env)
         /\ Commit(dq_launch_net(State, walloc, n,
                     [muid |-> muid, ttl |-> ttl, speed |-> speed, urn |-> urn,
                      guide |-> px.guide, proxied |-> px.proxied,
                      can_proxy |-> px.can_proxy, orig |-> px.orig], env),
                   "dq_launch_net")

LaunchLocal ==
    /\ Running
    /\ dyn_query_id < world.max_queries
    /\ world.slots \ dqueries # {}
    /\ \E h \in Nth(world.handles, dyn_query_id + 1), muid \in Nth(world.guids, dyn_query_id + 1),
          ttl \in world.ttls, urn \in world.urns, env \in Envs({}, TRUE) :
         /\ ProbeOrderOk(env)
         /\ Commit(dq_launch_local(State, walloc, h, [muid |-> muid, ttl |-> ttl, urn |-> urn], env),
                   "dq_launch_local")

\* The message queue frees a message, after sending it or dropping it.
PmsgFreeOf(pmi, sent) ==
    /\ Running
    /\ pmi \in mq
    /\ Commit(dq_pmsg_free(State, pmi, sent), "dq_pmsg_free")

PmsgFree == \E pmi \in mq, sent \in world.sents : PmsgFreeOf(pmi, sent)

\* The callout queue removes a triggered event and calls its routine on the
\* object given at insertion.
Live(e) == e.obj \in dqueries /\ dqs[e.obj].qid = e.gen

\* An event that outlived its query: its routine runs on freed or reused
\* memory.
Stale(S) == g_assert(S, FALSE, "event of a freed query")

ResultsExpiredOf(e) ==
    /\ Running
    /\ e \in callout_queue
    /\ e.fn = "dq_results_expired"
    /\ IF Live(e)
       THEN \E env \in Envs(dqs[e.obj].queried, dqs[e.obj].node_id = NODE_ID_SELF) :
              Commit(dq_results_expired([State EXCEPT !.cq = @ \ {e}], e.obj, env),
                     "dq_results_expired")
       ELSE Commit(Stale([State EXCEPT !.cq = @ \ {e}]), "dq_results_expired")

ResultsExpired == \E e \in callout_queue : ResultsExpiredOf(e)

ExpiredOf(e) ==
    /\ Running
    /\ e \in callout_queue
    /\ e.fn = "dq_expired"
    /\ IF Live(e)
       THEN Commit(dq_expired([State EXCEPT !.cq = @ \ {e}], e.obj), "dq_expired")
       ELSE Commit(Stale([State EXCEPT !.cq = @ \ {e}]), "dq_expired")

Expired == \E e \in callout_queue : ExpiredOf(e)

NodeRemovedOf(n) ==
    /\ Running
    /\ Commit(dq_node_removed(State, n), "dq_node_removed")

NodeRemoved == \E n \in Leaves : NodeRemovedOf(n)

\* Results told to a query, so far.
Told(dq) == dq.results + dq.linger_results + dq.oob_results

HitsOk(muid, count) ==
    muid \in DOMAIN by_muid => Told(dqs[by_muid[muid]]) + count <= world.max_hits

GotResultsOf(muid, count, status) ==
    /\ Running
    /\ HitsOk(muid, count)
    /\ Commit(dq_got_results(State, muid, count, status), "dq_got_results")

GotResults ==
    \E muid \in GUIDs, count \in world.counts, status \in world.statuses :
       GotResultsOf(muid, count, status)

OobResultsIndOf(muid, count) ==
    /\ Running
    /\ HitsOk(muid, count)
    /\ Commit(dq_oob_results_ind(State, muid, count), "dq_oob_results_ind")

OobResultsInd == \E muid \in GUIDs, count \in world.counts : OobResultsIndOf(muid, count)

OobResultsGotOf(muid, count) ==
    /\ Running
    /\ Commit(dq_oob_results_got(State, muid, count), "dq_oob_results_got")

OobResultsGot == \E muid \in GUIDs, count \in world.counts : OobResultsGotOf(muid, count)

\* The candidates matter to dq_got_query_status() only when it resumes a
\* query that waits for its status.
StatusEnvs(muid) ==
    LET s == status_lookup(State, muid)
    IN IF s # 0 /\ "WAITING" \in dqs[s].flags THEN Envs(dqs[s].queried, FALSE) ELSE {NoEnv}

GotQueryStatusOf(muid, n, kept) ==
    /\ Running
    /\ \E env \in StatusEnvs(muid) :
         Commit(dq_got_query_status(State, muid, n, kept, env), "dq_got_query_status")

GotQueryStatus ==
    \E muid \in GUIDs \cup world.origs, n \in Leaves, kept \in world.kepts :
       GotQueryStatusOf(muid, n, kept)

SearchClosedOf(h) ==
    /\ Running
    /\ Commit(dq_search_closed(State, h), "dq_search_closed")

SearchClosed == \E h \in Handles : SearchClosedOf(h)

\* What search_get_kept_results_by_handle() may answer for the query of a
\* MUID: asked of local queries only.
WantedKepts(muid) ==
    IF muid \in DOMAIN by_muid /\ dqs[by_muid[muid]].node_id = NODE_ID_SELF
    THEN world.lkepts ELSE {0}

GetResultsWantedOf(muid, k) ==
    /\ Running
    /\ Commit(dq_get_results_wanted(State, muid, k), "dq_get_results_wanted")

GetResultsWanted == \E muid \in GUIDs : \E k \in WantedKepts(muid) : GetResultsWantedOf(muid, k)

Next ==
    \/ LaunchNet
    \/ LaunchLocal
    \/ PmsgFree
    \/ ResultsExpired
    \/ Expired
    \/ NodeRemoved
    \/ GotResults
    \/ OobResultsInd
    \/ OobResultsGot
    \/ GotQueryStatus
    \/ SearchClosed
    \/ GetResultsWanted

----------------------------------------------------------------------------
(* Worlds: what the environment of the engine may do in one run            *)

Proxy(can_proxy) == [guide |-> FALSE, proxied |-> FALSE, can_proxy |-> can_proxy, orig |-> "g0"]

\* The query was OOB-proxied before it was handed to the engine.
Proxied == [guide |-> FALSE, proxied |-> TRUE, can_proxy |-> TRUE, orig |-> "g0"]

\* One query, of any kind, with three neighbours to send it to.
WorldOne ==
    [max_queries |-> MaxQueriesOne,
     max_hits |-> MaxHitsOne, slots |-> {1},
     leaves |-> <<{"l1"}>>, guids |-> <<{"g1"}>>, handles |-> <<{7}>>, origs |-> {"g0"},
     ttls |-> {4}, speeds |-> {{}, {"MARK", "LEAF_GUIDED"}}, urns |-> {TRUE},
     proxies |-> {Proxy(FALSE), Proxy(TRUE)},
     eligs |-> {{"u1", "u2", "u3"}}, routes |-> {{"u1", "u2", "u3"}},
     qsizes |-> {[n \in UPs |-> 0]},
     counts |-> {1}, statuses |-> {{}}, kepts |-> {0, KEPT_STOP}, lkepts |-> {0},
     rtts |-> {<<100, 200>>}, ultra |-> {TRUE}, active |-> {TRUE}, sents |-> BOOLEAN,
     max_connections |-> 8, normal_connections |-> 4]

\* Two queries, at the same time or one after the other in the same
\* memory, with one neighbour to send them to.
WorldTwo ==
    [max_queries |-> MaxQueriesTwo,
     max_hits |-> MaxHitsTwo, slots |-> {1, 2},
     leaves |-> <<{"l1"}, {"l1", "l2"}>>, guids |-> <<{"g1"}, {"g1", "g2"}>>,
     handles |-> <<{7}, {7, 8}>>, origs |-> {},
     ttls |-> {4}, speeds |-> {{"MARK", "LEAF_GUIDED"}}, urns |-> {TRUE},
     proxies |-> {Proxy(FALSE)},
     eligs |-> {{"u1"}}, routes |-> {{"u1"}},
     qsizes |-> {[n \in UPs |-> 0]},
     counts |-> {1}, statuses |-> {{}}, kepts |-> {KEPT_STOP}, lkepts |-> {0},
     rtts |-> {<<100, 200>>}, ultra |-> {TRUE}, active |-> {TRUE}, sents |-> BOOLEAN,
     max_connections |-> 8, normal_connections |-> 4]

\* One leaf-guided query of a leaf, OOB-proxied or not, or one local query,
\* with five neighbours to send it to, three of them by the probe; the
\* message queues drop nothing; the results come twenty at a time.
WorldThree ==
    [max_queries |-> MaxQueriesThree,
     max_hits |-> MaxHitsThree, slots |-> {1},
     leaves |-> <<{"l1"}>>, guids |-> <<{"g1"}>>, handles |-> <<{7}>>, origs |-> {"g0"},
     ttls |-> {4}, speeds |-> {{"MARK", "LEAF_GUIDED", "OOB_REPLY"}}, urns |-> {FALSE},
     proxies |-> {Proxy(FALSE), Proxied},
     eligs |-> {{"u1", "u2", "u3", "u4", "u5"}}, routes |-> {{"u1", "u2", "u3"}},
     qsizes |-> {[n \in UPs |-> 0]},
     counts |-> {DQ_MIN_FOR_GUIDANCE}, statuses |-> {{}}, kepts |-> {0, KEPT_STOP}, lkepts |-> {0},
     rtts |-> {<<100, 200>>}, ultra |-> {TRUE}, active |-> {TRUE}, sents |-> {TRUE},
     max_connections |-> 8, normal_connections |-> 2]

\* One query with one neighbour to send it to; the leaf may say it is
\* firewalled, with or without support for firewall-to-firewall transfers,
\* and so may the hosts that reply; the leaf reports kept counts below and
\* above the limits of the query.
WorldFour ==
    [max_queries |-> MaxQueriesFour,
     max_hits |-> MaxHitsFour, slots |-> {1},
     leaves |-> <<{"l1"}>>, guids |-> <<{"g1"}>>, handles |-> <<{7}>>, origs |-> {},
     ttls |-> {4},
     speeds |-> {{"MARK", "LEAF_GUIDED"}, {"MARK", "LEAF_GUIDED", "FIREWALLED"},
                 {"MARK", "LEAF_GUIDED", "FIREWALLED", "FW_TO_FW"}},
     urns |-> {TRUE},
     proxies |-> {Proxy(FALSE)},
     eligs |-> {{"u1"}}, routes |-> {{"u1"}},
     qsizes |-> {[n \in UPs |-> 0]},
     counts |-> {1}, statuses |-> {{}, {"FIREWALL"}, {"FIREWALL", "FW2FW"}},
     kepts |-> {1, 6, 60, KEPT_STOP}, lkepts |-> {2, 8},
     rtts |-> {<<100, 200>>}, ultra |-> {TRUE}, active |-> {TRUE}, sents |-> {TRUE},
     max_connections |-> 8, normal_connections |-> 4]

Spec == InitIn(WorldOne) /\ [][Next]_vars

SpecTwo == InitIn(WorldTwo) /\ [][Next]_vars

SpecThree == InitIn(WorldThree) /\ [][Next]_vars

SpecFour == InitIn(WorldFour) /\ [][Next]_vars

\* One query, of any kind, with two neighbours to send it to; the node may
\* stop being an ultrapeer and the leaf may be gone when the engine looks
\* for it.
WorldFive ==
    [max_queries |-> MaxQueriesFive,
     max_hits |-> MaxHitsFive, slots |-> {1},
     leaves |-> <<{"l1"}>>, guids |-> <<{"g1"}>>, handles |-> <<{7}>>, origs |-> {"g0"},
     ttls |-> {4}, speeds |-> {{}, {"MARK", "LEAF_GUIDED"}}, urns |-> {TRUE},
     proxies |-> {Proxy(FALSE), Proxy(TRUE)},
     eligs |-> {{"u1", "u2"}}, routes |-> {{"u1", "u2"}},
     qsizes |-> {[n \in UPs |-> 0]},
     counts |-> {1}, statuses |-> {{}}, kepts |-> {0, KEPT_STOP}, lkepts |-> {0},
     rtts |-> {<<100, 200>>}, ultra |-> BOOLEAN, active |-> BOOLEAN, sents |-> BOOLEAN,
     max_connections |-> 8, normal_connections |-> 4]

SpecFive == InitIn(WorldFive) /\ [][Next]_vars

\* Two queries of two leaves with the same MUID in their header, each
\* OOB-proxied or not: once proxied, the MUID the leaf knows is another one.
WorldSix ==
    [max_queries |-> MaxQueriesSix,
     max_hits |-> MaxHitsSix, slots |-> {1, 2},
     leaves |-> <<{"l1"}, {"l2"}>>, guids |-> <<{"g1"}>>,
     handles |-> <<{7}>>, origs |-> {"g0"},
     ttls |-> {4}, speeds |-> {{"MARK", "LEAF_GUIDED"}}, urns |-> {TRUE},
     proxies |-> {Proxy(FALSE), Proxied},
     eligs |-> {{"u1"}}, routes |-> {{"u1"}},
     qsizes |-> {[n \in UPs |-> 0]},
     counts |-> {1}, statuses |-> {{}}, kepts |-> {0}, lkepts |-> {0},
     rtts |-> {<<100, 200>>}, ultra |-> {TRUE}, active |-> {TRUE}, sents |-> {TRUE},
     max_connections |-> 8, normal_connections |-> 4]

SpecSix == InitIn(WorldSix) /\ [][Next]_vars

\* One query of a leaf, leaf-guided or with no flag in its speed field, or
\* one local query, with four neighbours to send it to, three of them by
\* the probe; the node may stop being an ultrapeer at any time, and be one
\* again.
WorldSeven ==
    [max_queries |-> MaxQueriesSeven,
     max_hits |-> MaxHitsSeven, slots |-> {1},
     leaves |-> <<{"l1"}>>, guids |-> <<{"g1"}>>, handles |-> <<{7}>>, origs |-> {},
     ttls |-> {4}, speeds |-> {{}, {"MARK", "LEAF_GUIDED"}}, urns |-> {TRUE},
     proxies |-> {Proxy(FALSE)},
     eligs |-> {{"u1", "u2", "u3", "u4"}}, routes |-> {{"u1", "u2", "u3"}},
     qsizes |-> {[n \in UPs |-> 0]},
     counts |-> {1}, statuses |-> {{}}, kepts |-> {0}, lkepts |-> {0},
     rtts |-> {<<100, 200>>}, ultra |-> BOOLEAN, active |-> {TRUE}, sents |-> {TRUE},
     max_connections |-> 8, normal_connections |-> 4]

SpecSeven == InitIn(WorldSeven) /\ [][Next]_vars

\* One query, of a leaf or local, for something rare: of the two
\* neighbours, one of degree 6 and one of degree 1 that has a last-hop QRP
\* table, both connected or the latter alone, the routing tables admit
\* none, one or both.
WorldEight ==
    [max_queries |-> MaxQueriesEight,
     max_hits |-> MaxHitsEight, slots |-> {1},
     leaves |-> <<{"l1"}>>, guids |-> <<{"g1"}>>, handles |-> <<{7}>>, origs |-> {},
     ttls |-> {4}, speeds |-> {{"MARK", "LEAF_GUIDED"}}, urns |-> {FALSE},
     proxies |-> {Proxy(FALSE)},
     eligs |-> {{"u1", "u3"}, {"u3"}}, routes |-> {{}, {"u3"}, {"u1", "u3"}},
     qsizes |-> {[n \in UPs |-> 0]},
     counts |-> {1}, statuses |-> {{}}, kepts |-> {0}, lkepts |-> {0},
     rtts |-> {<<100, 200>>}, ultra |-> {TRUE}, active |-> {TRUE}, sents |-> {TRUE},
     max_connections |-> 8, normal_connections |-> 4]

SpecEight == InitIn(WorldEight) /\ [][Next]_vars

\* One query, of a leaf or local, that wants 2 results (6 if local) and
\* gives up past 40 seen (120 if local), with three neighbours to send it
\* to, one of them of degree 50 and reached at TTL 5, and room for 2
\* ultrapeers queried; the results come twenty at a time; the node may
\* stop being an ultrapeer.
WorldNine ==
    [max_queries |-> MaxQueriesNine,
     max_hits |-> MaxHitsNine, slots |-> {1},
     leaves |-> <<{"l1"}>>, guids |-> <<{"g1"}>>, handles |-> <<{7}>>, origs |-> {},
     ttls |-> {5}, speeds |-> {{"MARK", "LEAF_GUIDED"}}, urns |-> {TRUE},
     proxies |-> {Proxy(FALSE)},
     eligs |-> {{"u1", "u2", "u6"}}, routes |-> {{"u1"}},
     qsizes |-> {[n \in UPs |-> 0]},
     counts |-> {DQ_MIN_FOR_GUIDANCE}, statuses |-> {{}}, kepts |-> {0, 6}, lkepts |-> {0, 6},
     rtts |-> {<<100, 200>>}, ultra |-> BOOLEAN, active |-> {TRUE}, sents |-> {TRUE},
     max_connections |-> 8, normal_connections |-> 6]

SpecNine == InitIn(WorldNine) /\ [][Next]_vars

\* The selection of the TTL on its own: a query of a leaf that got no
\* status, with the results and the horizon it has, the results it wants
\* and its TTL, is about to be sent to a neighbour, one of `connections'
\* candidates; the query still needs results, as dq_select_ttl() asserts.
MaxResultsSeen == 12
MaxHorizonSeen == 6
MaxCandidates == 3

InitSelectTtl ==
    \E results \in 0..MaxResultsSeen, horizon \in 0..MaxHorizonSeen,
       max_results \in {DQ_LEAF_RESULTS \div DQ_SHA1_DECIMATOR, DQ_LEAF_RESULTS},
       n \in {"u1", "u2", "u3", "u6"}, ttl \in 1..DQ_MAX_TTL, connections \in 1..MaxCandidates :
       /\ results < max_results
       /\ InitIn([results |-> results, horizon |-> horizon, max_results |-> max_results,
                  node |-> n, ttl |-> ttl, connections |-> connections])

\* The engine with the query of the world at address 1.
SelectTtlState ==
    [State EXCEPT !.dqs[1] = [NewDq("l1", 0, "g1", NULL, {}, {}, world.ttl, world.max_results)
                                 EXCEPT !.results = world.results,
                                        !.horizon = world.horizon]]

SelectTtl ==
    /\ last' = [op |-> "dq_select_ttl",
                out |-> dq_select_ttl(SelectTtlState, 1, world.node, world.connections, 0)]
    /\ UNCHANGED <<dqs, dqueries, by_node_id, by_muid, by_leaf_muid, callout_queue,
                   mq, dyn_query_id, failed, world>>

NextSelectTtl == SelectTtl

SpecSelectTtl == InitSelectTtl /\ [][NextSelectTtl]_vars

\* The guidance world: one query of a leaf, guided by it or not, OOB-proxied
\* or not; four ultrapeers, three of them admitting the query for the probe;
\* hits come 20 at a time; the leaf may be gone when its status is wanted,
\* and its round trips take 150 ms or 45 s on average.
WorldEleven ==
    [max_queries |-> MaxQueriesEleven,
     max_hits |-> MaxHitsEleven, slots |-> {1},
     leaves |-> <<{"l1"}>>, guids |-> <<{"g1"}>>, handles |-> <<{7}>>, origs |-> {"g0"},
     ttls |-> {4}, speeds |-> {{}, {"MARK", "LEAF_GUIDED", "OOB_REPLY"}}, urns |-> {FALSE},
     proxies |-> {Proxy(FALSE), Proxied},
     eligs |-> {{"u1", "u2", "u3", "u4"}}, routes |-> {{"u1", "u2", "u3"}},
     qsizes |-> {[n \in UPs |-> 0]},
     counts |-> {DQ_MIN_FOR_GUIDANCE}, statuses |-> {{}}, kepts |-> {0}, lkepts |-> {0},
     rtts |-> {<<100, 200>>, <<50000, 40000>>}, ultra |-> {TRUE}, active |-> BOOLEAN,
     sents |-> {TRUE},
     max_connections |-> 8, normal_connections |-> 4]

SpecEleven == InitIn(WorldEleven) /\ [][Next]_vars

\* The routing world: one query of a leaf that does not guide it, marked or
\* not, asking for out-of-band replies or not, OOB-proxied or not, by a node
\* that can proxy or cannot; four ultrapeers, three of them admitting the
\* query for the probe.
WorldThirteen ==
    [max_queries |-> MaxQueriesThirteen,
     max_hits |-> MaxHitsThirteen, slots |-> {1},
     leaves |-> <<{"l1"}>>, guids |-> <<{"g1"}>>, handles |-> <<{7}>>, origs |-> {"g0"},
     ttls |-> {4}, speeds |-> {{}, {"MARK"}, {"MARK", "OOB_REPLY"}}, urns |-> {FALSE},
     proxies |-> {Proxy(FALSE), Proxy(TRUE), Proxied},
     eligs |-> {{"u1", "u2", "u3", "u4"}}, routes |-> {{"u1", "u2", "u3"}},
     qsizes |-> {[n \in UPs |-> 0]},
     counts |-> {1}, statuses |-> {{}}, kepts |-> {0}, lkepts |-> {0},
     rtts |-> {<<100, 200>>}, ultra |-> {TRUE}, active |-> {TRUE}, sents |-> {TRUE},
     max_connections |-> 8, normal_connections |-> 4]

SpecThirteen == InitIn(WorldThirteen) /\ [][Next]_vars

\* The TTL world: one query of a leaf, received with a TTL of 0, of 1 or
\* above DQ_MAX_TTL; four ultrapeers of maximum TTL 4, 3, 1 and 1, three of
\* them admitting the query for the probe.
WorldFourteen ==
    [max_queries |-> MaxQueriesFourteen,
     max_hits |-> MaxHitsFourteen, slots |-> {1},
     leaves |-> <<{"l1"}>>, guids |-> <<{"g1"}>>, handles |-> <<{7}>>, origs |-> {},
     ttls |-> {0, 1, MaxHeaderTtl}, speeds |-> {{"MARK", "LEAF_GUIDED"}}, urns |-> {FALSE},
     proxies |-> {Proxy(FALSE)},
     eligs |-> {{"u1", "u2", "u3", "u4"}}, routes |-> {{"u1", "u2", "u3"}},
     qsizes |-> {[n \in UPs |-> 0]},
     counts |-> {1}, statuses |-> {{}}, kepts |-> {0}, lkepts |-> {0},
     rtts |-> {<<100, 200>>}, ultra |-> {TRUE}, active |-> {TRUE}, sents |-> {TRUE},
     max_connections |-> 8, normal_connections |-> 4]

SpecFourteen == InitIn(WorldFourteen) /\ [][Next]_vars

\* The accounting world: two queries, of one leaf or of two, or local, that
\* ask for 50 results or more and get one at most; no user cancels a
\* query; one neighbour.
WorldFifteen ==
    [max_queries |-> MaxQueriesFifteen,
     max_hits |-> MaxHitsFifteen, slots |-> {1, 2},
     leaves |-> <<{"l1"}, {"l1", "l2"}>>, guids |-> <<{"g1"}, {"g2"}>>,
     handles |-> <<{7}, {7, 8}>>, origs |-> {},
     ttls |-> {4}, speeds |-> {{"MARK", "LEAF_GUIDED"}}, urns |-> {FALSE},
     proxies |-> {Proxy(FALSE)},
     eligs |-> {{"u1"}}, routes |-> {{"u1"}},
     qsizes |-> {[n \in UPs |-> 0]},
     counts |-> {1}, statuses |-> {{}}, kepts |-> {0}, lkepts |-> {0},
     rtts |-> {<<100, 200>>}, ultra |-> {TRUE}, active |-> {TRUE}, sents |-> {TRUE},
     max_connections |-> 8, normal_connections |-> 4]

SpecFifteen == InitIn(WorldFifteen) /\ [][Next]_vars

\* The lossy guidance world: one leaf-guided query that does not route its
\* hits; four ultrapeers, three of them admitting the query for the probe;
\* each message queued may be sent or dropped; the leaf sends no status but
\* to stop the query.
WorldTwelve ==
    [max_queries |-> MaxQueriesTwelve,
     max_hits |-> MaxHitsTwelve, slots |-> {1},
     leaves |-> <<{"l1"}>>, guids |-> <<{"g1"}>>, handles |-> <<{7}>>, origs |-> {},
     ttls |-> {4}, speeds |-> {{"MARK", "LEAF_GUIDED"}}, urns |-> {FALSE},
     proxies |-> {Proxy(FALSE)},
     eligs |-> {{"u1", "u2", "u3", "u4"}}, routes |-> {{"u1", "u2", "u3"}},
     qsizes |-> {[n \in UPs |-> 0]},
     counts |-> {1}, statuses |-> {{}}, kepts |-> {KEPT_STOP}, lkepts |-> {0},
     rtts |-> {<<100, 200>>}, ultra |-> {TRUE}, active |-> {TRUE}, sents |-> BOOLEAN,
     max_connections |-> 8, normal_connections |-> 4]

SpecTwelve == InitIn(WorldTwelve) /\ [][Next]_vars

\* The probe on its own: a leaf-guided query of a leaf, of TTL 1 to 5, is
\* launched when the last n ultrapeers connected, of MaxProbeUps,
\* are fit for it and admit it; the send queues of the ultrapeers are
\* empty, or deeper, or shallower, for those that connected later; qsort()
\* leaves the vector in an order that node_mq_cmp() accepts.
QueueSizes ==
    {[n \in UPs |-> 0],
     [n \in UPs |-> 1024 * (CHOOSE i \in DOMAIN UPSeq : UPSeq[i] = n)],
     [n \in UPs |-> 1024 * (Len(UPSeq) - (CHOOSE i \in DOMAIN UPSeq : UPSeq[i] = n))]}

ProbeOrders(n) ==
    {[i \in 1..n |-> UPSeq[MaxProbeUps - n + i]], [i \in 1..n |-> UPSeq[MaxProbeUps + 1 - i]]}

InitProbe ==
    \E n \in 1..MaxProbeUps, ttl \in 1..DQ_MAX_TTL, qs \in QueueSizes : \E order \in ProbeOrders(n) :
       /\ qsort_ok(order, qs)
       /\ InitIn([n |-> n, ttl |-> ttl, qs |-> qs, order |-> order])

\* What the collaborators answer to the probe of the world.
ProbeEnv ==
    [NoEnv EXCEPT !.elig = {world.order[i] : i \in 1..world.n},
                  !.route = {world.order[i] : i \in 1..world.n},
                  !.order = world.order,
                  !.max_connections = Len(UPSeq)]

SendProbe ==
    /\ dqueries = {}
    /\ Commit(dq_launch_net(State, 1, "l1",
                            [muid |-> "g1", ttl |-> world.ttl, speed |-> {"MARK", "LEAF_GUIDED"},
                             urn |-> FALSE, guide |-> FALSE, proxied |-> FALSE,
                             can_proxy |-> FALSE, orig |-> "g0"], ProbeEnv),
              "dq_launch_net")

NextProbe == SendProbe

SpecProbe == InitProbe /\ [][NextProbe]_vars

\* The end of the iteration step on its own: a query that routes its hits,
\* with the result_timeout, the horizon, the results and the pending
\* messages of the world, and one ultrapeer left to query.
MaxPendingSeen == 2

InitAdjust ==
    \E timeout \in {DQ_MIN_TIMEOUT + DQ_TIMEOUT_ADJUST * k : k \in 0..22},
       horizon \in {0, DQ_MIN_HORIZON, DQ_MIN_HORIZON + 1, DQ_MIN_HORIZON + 300,
                    2 * DQ_MIN_HORIZON, 10 * DQ_MIN_HORIZON},
       results \in 0..MaxResultsSeen, pending \in 0..MaxPendingSeen :
       InitIn([result_timeout |-> timeout, horizon |-> horizon, results |-> results,
               pending |-> pending])

\* The engine with the query of the world at address 1.
AdjustState ==
    LET A == dq_common_init([State EXCEPT !.dqs[1] = NewDq("l1", 0, "g1", NULL, {"ROUTING_HITS"},
                                                            {"MARK"}, DQ_MAX_TTL, DQ_LEAF_RESULTS)], 1)
    IN [A EXCEPT !.dqs[1].result_timeout = world.result_timeout,
                 !.dqs[1].horizon = world.horizon,
                 !.dqs[1].results = world.results,
                 !.dqs[1].pending = world.pending]

AdjustEnv ==
    [NoEnv EXCEPT !.elig = {"u7"}, !.order = <<"u7">>, !.max_connections = Len(UPSeq)]

SendNext ==
    /\ dqueries = {}
    /\ Commit(dq_send_next(AdjustState, 1, AdjustEnv), "dq_send_next")

NextAdjust == SendNext

SpecAdjust == InitAdjust /\ [][NextAdjust]_vars

\* The last-hop world: one query of a leaf that guides it, of TTL 1 or 3;
\* three ultrapeers fit for it, the one of degree 6 admitting it for the
\* probe; the two others have the routing table of a last hop, which
\* admits the query or not.
WorldTen ==
    [max_queries |-> MaxQueriesTen,
     max_hits |-> MaxHitsTen, slots |-> {1},
     leaves |-> <<{"l1"}>>, guids |-> <<{"g1"}>>, handles |-> <<{7}>>, origs |-> {},
     ttls |-> {1, 3}, speeds |-> {{"MARK", "LEAF_GUIDED"}}, urns |-> {FALSE},
     proxies |-> {Proxy(FALSE)},
     eligs |-> {{"u1", "u2", "u3"}},
     routes |-> {{"u1"}, {"u1", "u2"}, {"u1", "u3"}, {"u1", "u2", "u3"}},
     qsizes |-> {[n \in UPs |-> 0]},
     counts |-> {1}, statuses |-> {{}}, kepts |-> {0}, lkepts |-> {0},
     rtts |-> {<<100, 200>>}, ultra |-> {TRUE}, active |-> {TRUE}, sents |-> {TRUE},
     max_connections |-> 8, normal_connections |-> 4]

SpecTen == InitIn(WorldTen) /\ [][Next]_vars

\* Expired can take a step: the callout queue holds an expiration event.
\* This is ENABLED <<Expired>>_vars, every Expired step removing the event
\* it delivers.
ExpiredArmed == Running /\ \E e \in callout_queue : e.fn = "dq_expired"

\* The callout queue fires the events it holds: weak fairness of Expired,
\* WF_vars(Expired), with its enabling condition written out.
ExpiredFair == []<>(~ExpiredArmed) \/ []<><<Expired>>_vars

SpecFair == InitIn(WorldFive) /\ [][Next]_vars /\ ExpiredFair

\* The horizon function on its own: the engine is idle, a degree and a TTL
\* are drawn (both positive, as dq_get_horizon() asserts; up to two past
\* the edges of the table) and dq_get_horizon() is called on them.
MaxDegree == 52
MaxTtl == 7

InitHorizon ==
    \E degree \in 1..MaxDegree, ttl \in 1..MaxTtl :
       InitIn([degree |-> degree, ttl |-> ttl])

GetHorizon ==
    /\ last' = [op |-> "dq_get_horizon", out |-> dq_get_horizon(world.degree, world.ttl)]
    /\ UNCHANGED <<dqs, dqueries, by_node_id, by_muid, by_leaf_muid, callout_queue,
                   mq, dyn_query_id, failed, world>>

NextHorizon == GetHorizon

SpecHorizon == InitHorizon /\ [][NextHorizon]_vars

----------------------------------------------------------------------------
(* Properties                                                              *)

\* The message was sent for a query that is gone: no query lives at the
\* address it names, or the one that does has another query ID.
StalePmi(pmi) == pmi.dq \notin dqueries \/ dqs[pmi.dq].qid # pmi.qid

\* The messages in flight that were sent for the query at address s.
InFlight(s) == {pmi \in mq : pmi.dq = s /\ pmi.qid = dqs[s].qid}

\* C1: dq_pmsg_free() called for a message whose query is gone (freed, or
\* freed and its memory reused by a query with another ID) changes no field
\* of any query, no index and no timer, whether the message was sent or
\* dropped: it only releases the message's metadata.
C1_StaleFreeHookNoOp ==
    [][\A pmi \in mq, sent \in BOOLEAN :
         (StalePmi(pmi) /\ PmsgFreeOf(pmi, sent))
         => /\ UNCHANGED <<dqs, dqueries, by_node_id, by_muid, by_leaf_muid,
                           callout_queue, dyn_query_id, failed>>
            /\ mq' = mq \ {pmi}]_vars

\* The memory of the first query holds the second one, launched after the
\* first was freed with its message in flight; the free hook of that
\* message has just run, and the second query still waits for its own.
C1_Witness ==
    /\ last.op = "dq_pmsg_free"
    /\ dyn_query_id = 2
    /\ dqueries = {1}
    /\ dqs[1].qid = 1
    /\ dqs[1].pending = 1 /\ dqs[1].up_sent = 0 /\ dqs[1].queried = {"u1"}
    /\ dqs[1].results_ev
    /\ Cardinality(InFlight(1)) = 1
    /\ mq = InFlight(1)

\* The nodes the messages in flight of the query at s were sent to.
PendingNodes(s) == {pmi.node_id : pmi \in InFlight(s)}

\* The query at address s before the step is still there after it.
Survives(s) == s \in dqueries /\ s \in dqueries' /\ dqs'[s].qid = dqs[s].qid

\* The messages in flight and the nodes they go to, after the step.
InFlightNext(s) == {pmi \in mq' : pmi.dq = s /\ pmi.qid = dqs'[s].qid}
PendingNodesNext(s) == {pmi.node_id : pmi \in InFlightNext(s)}

QueriedInv ==
    \A s \in dqueries :
       /\ PendingNodes(s) \subseteq dqs[s].queried
       /\ Cardinality(PendingNodes(s)) = Cardinality(InFlight(s))
       /\ dqs[s].pending = Cardinality(InFlight(s))
       /\ Cardinality(dqs[s].queried \ PendingNodes(s)) = dqs[s].up_sent
       /\ Cardinality(dqs[s].queried) = dqs[s].up_sent + dqs[s].pending
       /\ dqs[s].up_sent <= Cardinality(dqs[s].queried)

QueriedStep ==
    \A s \in Slots : Survives(s) =>
       \* a node leaves `queried' when the message sent to it is dropped
       /\ \A n \in dqs[s].queried \ dqs'[s].queried :
             \E pmi \in InFlight(s) : pmi.node_id = n /\ PmsgFreeOf(pmi, FALSE)
       \* a queried node stops being pending when its message is sent
       /\ \A n \in (PendingNodes(s) \ PendingNodesNext(s)) \cap dqs'[s].queried :
             /\ \E pmi \in InFlight(s) : pmi.node_id = n /\ PmsgFreeOf(pmi, TRUE)
             /\ dqs'[s].up_sent = dqs[s].up_sent + 1
       \* a node enters `queried' with a message in flight
       /\ dqs'[s].queried \ dqs[s].queried \subseteq PendingNodesNext(s)
       /\ dqs'[s].up_sent >= dqs[s].up_sent

\* C2: for every live query, `queried' holds exactly the nodes whose
\* message is in flight (pending) or was reported sent, each once:
\* |queried| = up_sent + pending and up_sent <= |queried|; a node leaves
\* `queried' only when the free hook reports its message dropped.
C2_QueriedIsSentOrPending == []QueriedInv /\ [][QueriedStep]_vars

\* One message was sent, one was dropped, one is in flight.
C2_Witness ==
    /\ last.op = "dq_pmsg_free"
    /\ \E s \in dqueries :
          /\ dqs[s].up_sent = 1 /\ dqs[s].pending = 1
          /\ Cardinality(dqs[s].queried) = 2
          /\ PendingNodes(s) # dqs[s].queried

\* C3, as stated: pending never underflows, and a query that is freed has
\* no message pending.
C3_PendingZeroWhenFreed ==
    [][\A s \in dqueries : s \notin dqueries' => dqs[s].pending = 0]_vars

\* C3, amended: the free hook never finds a live query with pending = 0,
\* and pending is the number of messages of the query still in the message
\* queues.  (A query can be freed with messages pending: their free hooks
\* then find it gone.)
C3_PendingCountsInFlight ==
    /\ "dq_pmsg_free: pending > 0" \notin failed
    /\ \A s \in dqueries : dqs[s].pending >= 0 /\ dqs[s].pending = Cardinality(InFlight(s))

\* The free hook has just run for the message of a live query, and a query
\* that was freed with a message pending has left that message behind.
C3_Witness ==
    /\ last.op = "dq_pmsg_free"
    /\ \E s \in dqueries : dqs[s].pending = 0 /\ dqs[s].up_sent = 1
    /\ \E pmi \in mq : StalePmi(pmi)

\* The step tells the query at address s about `count' hits that
\* dq_count_results() does not discard.
Hits(s, count) ==
    \E muid \in DOMAIN by_muid :
       /\ by_muid[muid] = s
       /\ \/ \E status \in world.statuses :
               ~FirewallDrop(dqs[s], status, FALSE) /\ GotResultsOf(muid, count, status)
          \/ OobResultsIndOf(muid, count)

\* An output of the last handler that dispatches something for the query
\* at address s: a query message or a query status request.
Dispatched(out, s) == \E o \in out : o.type \in {"query", "qstat_req"} /\ o.dq = s

LingerStep ==
    \A s \in Slots : (Survives(s) /\ "LINGER" \in dqs[s].flags) =>
       /\ "LINGER" \in dqs'[s].flags
       /\ "WAITING" \notin dqs'[s].flags
       /\ ~dqs'[s].results_ev
       /\ dqs'[s].queried \subseteq dqs[s].queried
       /\ InFlightNext(s) \subseteq InFlight(s)
       /\ ~Dispatched(last'.out, s)
       /\ \A count \in world.counts : Hits(s, count) =>
             /\ dqs'[s].linger_results = dqs[s].linger_results + count
             /\ dqs'[s].results = dqs[s].results
             /\ dqs'[s].new_results = dqs[s].new_results
             /\ dqs'[s].oob_results = dqs[s].oob_results

\* C4: a query with DQ_F_LINGER set stays so until it is freed; no step
\* sends a query message or a status request for it, and the hits it is
\* told about are added to linger_results.
C4_NoDispatchWhenLingering == [][LingerStep]_vars

\* A lingering query that still had a message in flight when it stopped has
\* just been told about a hit.
C4_Witness ==
    /\ last.op \in {"dq_got_results", "dq_oob_results_ind"}
    /\ \E s \in dqueries :
          /\ "LINGER" \in dqs[s].flags
          /\ dqs[s].linger_results > 0
          /\ dqs[s].pending > 0

\* The addresses that hold a dquery_t: allocated by a launch routine and
\* not released by dq_free().
Allocated == {s \in Slots : dqs[s] # NoDq}

\* C5: between the handlers, the query records that were created and not
\* freed are the keys of `dqueries'.
C5_AllocatedAreDqueries == Allocated = dqueries

\* The first query was freed while the second one, launched at another
\* address when the first was alive, goes on.
C5_Witness ==
    /\ dyn_query_id = 2
    /\ dqueries = {2}
    /\ dqs[1] = NoDq
    /\ dqs[2].qid = 1

\* The elements of a list.
Range(list) == {list[i] : i \in DOMAIN list}

QueriesOf(n) == {s \in dqueries : dqs[s].node_id = n}

\* The step frees the queries of `freed' at once, and leaves the others,
\* and the messages in flight, as they are.
FreesExactly(freed) ==
    /\ dqueries' = dqueries \ freed
    /\ \A s \in freed : dqs'[s] = NoDq
    /\ \A s \in Slots \ freed : dqs'[s] = dqs[s]
    /\ callout_queue' = {e \in callout_queue : e.obj \notin freed}
    /\ by_muid' = [m \in {x \in DOMAIN by_muid : by_muid[x] \notin freed} |-> by_muid[m]]
    /\ by_leaf_muid' =
          [m \in {x \in DOMAIN by_leaf_muid : by_leaf_muid[x] \notin freed} |-> by_leaf_muid[m]]
    /\ mq' = mq
    /\ \A pmi \in mq' : pmi.dq \in freed => pmi.dq \notin dqueries'
    /\ failed' = failed

EventsNext(s, fn) == {e \in callout_queue' : e.obj = s /\ e.fn = fn}

ResultsEvents(s) == {e \in callout_queue : e.obj = s /\ e.fn = "dq_results_expired"}

\* C11: a query status that is accepted (the MUID is that of a query, or its
\* leaf MUID, and the sender is the node that issued the query) records the
\* kept count, marks the query as having got guidance, makes last_status
\* the number of ultrapeers queried so far and resets new_results.  If the
\* query was neither waiting for a status nor leaf-guided, it becomes
\* leaf-guided.  If it was waiting and the count is not 0xffff, the
\* status timer is cancelled, the query stops waiting and the iteration step
\* runs in the same call: it ends the query, or it arms a new results event.
C11_GuidanceAccepted ==
    [][\A muid \in GUIDs \cup world.origs, n \in Leaves, kept \in world.kepts :
         LET s == status_lookup(State, muid)
         IN (s # 0 /\ dqs[s].node_id = n /\ GotQueryStatusOf(muid, n, kept))
            => /\ s \in dqueries'
               /\ dqs'[s].kept_results = kept
               /\ "GOT_GUIDANCE" \in dqs'[s].flags
               /\ dqs'[s].last_status = dqs[s].up_sent
               /\ dqs'[s].new_results = 0
               /\ dqs[s].flags \cap {"WAITING", "LEAF_GUIDED"} = {}
                  => /\ "LEAF_GUIDED" \in dqs'[s].flags
                     /\ [type |-> "leaf_guidance", node |-> n, on |-> TRUE] \in last'.out
               /\ ("WAITING" \in dqs[s].flags /\ kept # KEPT_STOP)
                  => /\ "WAITING" \notin dqs'[s].flags
                     /\ ResultsEvents(s) # {}
                     /\ ResultsEvents(s) \cap callout_queue' = {}
                     /\ \/ /\ "LINGER" \in dqs'[s].flags
                           /\ ~dqs'[s].results_ev
                           /\ EventsNext(s, "dq_results_expired") = {}
                        \/ /\ "LINGER" \notin dqs'[s].flags
                           /\ dqs'[s].results_ev
                           /\ Cardinality(EventsNext(s, "dq_results_expired")) = 1]_vars

\* The status came for a query that waited for it, three messages sent: in
\* the same call, the query was sent to a fourth ultrapeer.
C11_Witness ==
    /\ last.op = "dq_got_query_status"
    /\ \E s \in dqueries :
          /\ "GOT_GUIDANCE" \in dqs[s].flags
          /\ dqs[s].flags \cap {"WAITING", "LINGER"} = {}
          /\ dqs[s].kept_results = 0
          /\ dqs[s].last_status = 3
          /\ dqs[s].up_sent = 3
          /\ dqs[s].stat_timeouts = 0
          /\ dqs[s].pending = 1
          /\ Cardinality(dqs[s].queried) = 4
          /\ Dispatched(last.out, s)
          /\ dqs[s].results_ev

\* The result counters of the query at address s are left as they were.
CountersSame(s) ==
    /\ dqs'[s].results = dqs[s].results
    /\ dqs'[s].new_results = dqs[s].new_results
    /\ dqs'[s].linger_results = dqs[s].linger_results
    /\ dqs'[s].oob_results = dqs[s].oob_results

\* The step returned v to its caller.
Returned(v) == [type |-> "return", val |-> v] \in last'.out

\* The direct hits with `status' are, for the query dq: from a firewalled
\* host to a firewalled requester.
BothFirewalled(dq, status) == "FIREWALL" \in status /\ "FIREWALLED" \in dq.query_flags

\* C12, as claimed: direct hits for a known MUID are dropped uncounted
\* exactly when the replying host is firewalled, the query is marked
\* firewalled, and neither the host nor the requester supports
\* firewall-to-firewall transfers; all other hits are counted.
C12_DropWhenNeitherSupports ==
    [][\A muid \in GUIDs, count \in world.counts, status \in world.statuses :
         (muid \in DOMAIN by_muid /\ GotResultsOf(muid, count, status))
         => LET s == by_muid[muid]
                neither == /\ BothFirewalled(dqs[s], status)
                           /\ "FW2FW" \notin status
                           /\ "FW_TO_FW" \notin dqs[s].query_flags
            IN /\ neither => (CountersSame(s) /\ Returned(FALSE))
               /\ ~neither => ~CountersSame(s)]_vars

\* C12: direct hits for a known MUID are dropped uncounted (the call
\* returns FALSE and no counter changes) exactly when the replying host is
\* firewalled, the query is marked firewalled, and the host or the
\* requester lacks support for firewall-to-firewall transfers; all other
\* hits are counted.
C12_DropUnlessBothSupport ==
    [][\A muid \in GUIDs, count \in world.counts, status \in world.statuses :
         (muid \in DOMAIN by_muid /\ GotResultsOf(muid, count, status))
         => LET s == by_muid[muid]
                useless == /\ BothFirewalled(dqs[s], status)
                           /\ ~("FW2FW" \in status /\ "FW_TO_FW" \in dqs[s].query_flags)
            IN /\ useless => (CountersSame(s) /\ Returned(FALSE) /\ dqs' = dqs)
               /\ ~useless => ~CountersSame(s)]_vars

\* Hits were just dropped, uncounted, for a firewalled requester that
\* supports firewall-to-firewall transfers and did not cancel its query:
\* the host that replied is firewalled and does not support them.
C12_Witness ==
    /\ last.op = "dq_got_results"
    /\ [type |-> "return", val |-> FALSE] \in last.out
    /\ \E s \in dqueries :
          /\ {"FIREWALLED", "FW_TO_FW"} \subseteq dqs[s].query_flags
          /\ "USR_CANCELLED" \notin dqs[s].flags
          /\ Told(dqs[s]) = 0

\* C13: direct hits that the firewall rule does not reject, for a known
\* MUID, add their count to linger_results alone when the query is
\* lingering, and to results and new_results alone when it is not; the call
\* returns FALSE (drop) if and only if the query is user-cancelled.  For an
\* unknown MUID the call returns TRUE (forward) and changes nothing.
C13_DirectHitsCounted ==
    [][\A muid \in GUIDs, count \in world.counts, status \in world.statuses :
         GotResultsOf(muid, count, status)
         => IF muid \in DOMAIN by_muid
            THEN LET s == by_muid[muid]
                     dq == dqs[s]
                     to_linger == IF "LINGER" \in dq.flags THEN count ELSE 0
                     to_results == IF "LINGER" \in dq.flags THEN 0 ELSE count
                 IN ~FirewallDrop(dq, status, FALSE)
                    => /\ dqs' = [dqs EXCEPT ![s].linger_results = @ + to_linger,
                                             ![s].results = @ + to_results,
                                             ![s].new_results = @ + to_results]
                       /\ Returned("USR_CANCELLED" \notin dq.flags)
                       /\ ~Returned("USR_CANCELLED" \in dq.flags)
            ELSE /\ UNCHANGED <<dqs, dqueries, by_node_id, by_muid, by_leaf_muid,
                                callout_queue, mq, dyn_query_id, failed>>
                 /\ last'.out = {[type |-> "return", val |-> TRUE]}]_vars

\* Hits were counted for the query before and after it was cancelled by
\* its user: the last ones went to linger_results, and were not forwarded.
C13_Witness ==
    /\ last.op = "dq_got_results"
    /\ last.out = {[type |-> "return", val |-> FALSE]}
    /\ \E s \in dqueries :
          /\ {"LINGER", "USR_CANCELLED"} \subseteq dqs[s].flags
          /\ dqs[s].results = 1
          /\ dqs[s].linger_results = 1
          /\ dqs[s].oob_results = 0

\* C14, as claimed: an OOB indication for a known MUID returns FALSE (do
\* not claim) if and only if the query is user-cancelled and, when it is
\* not, adds its count to oob_results and to no other counter, whether the
\* query is lingering or not.
C14_IndicationAddsToOobAlways ==
    [][\A muid \in GUIDs, count \in world.counts :
         (muid \in DOMAIN by_muid /\ OobResultsIndOf(muid, count))
         => LET s == by_muid[muid]
            IN /\ Returned("USR_CANCELLED" \notin dqs[s].flags)
               /\ "USR_CANCELLED" \notin dqs[s].flags
                  => dqs' = [dqs EXCEPT ![s].oob_results = @ + count]]_vars

\* C14: an OOB indication for a known MUID returns FALSE (do not claim) if
\* and only if the query is user-cancelled; it adds its count to
\* oob_results alone when the query is not lingering, and to
\* linger_results alone when it is; the firewall flags of the query never
\* make it ignored.
C14_IndicationCounted ==
    [][\A muid \in GUIDs, count \in world.counts :
         (muid \in DOMAIN by_muid /\ OobResultsIndOf(muid, count))
         => LET s == by_muid[muid]
                to_linger == IF "LINGER" \in dqs[s].flags THEN count ELSE 0
                to_oob == IF "LINGER" \in dqs[s].flags THEN 0 ELSE count
            IN /\ Returned("USR_CANCELLED" \notin dqs[s].flags)
               /\ ~Returned("USR_CANCELLED" \in dqs[s].flags)
               /\ dqs' = [dqs EXCEPT ![s].oob_results = @ + to_oob,
                                     ![s].linger_results = @ + to_linger]]_vars

\* A query of a firewalled leaf, not cancelled, was told of OOB hits once
\* before it ended and once after: the last indication went to
\* linger_results.
C14_Witness ==
    /\ last.op = "dq_oob_results_ind"
    /\ last.out = {[type |-> "return", val |-> TRUE]}
    /\ \E s \in dqueries :
          /\ "LINGER" \in dqs[s].flags
          /\ "USR_CANCELLED" \notin dqs[s].flags
          /\ dqs[s].query_flags \cap {"FIREWALLED", "FW_TO_FW"} = {"FIREWALLED"}
          /\ dqs[s].oob_results = 1
          /\ dqs[s].linger_results = 1
          /\ dqs[s].results = 0

\* oob_results of the query of `muid' after dq_oob_results_ind(muid, c)
\* immediately followed by dq_oob_results_got(muid, c), from state S.
AfterIndThenGot(S, muid, c) ==
    dq_oob_results_got(dq_oob_results_ind(S, muid, c), muid, c).dqs[S.by_muid[muid]].oob_results

\* C15: for every known query, lingering or not, whatever its oob_results
\* and for every count c of the world: an OOB indication of c immediately
\* followed by the claim of c leaves oob_results as it was before the
\* indication; the claim alone takes c off oob_results, down to 0 at most.
C15_IndicationThenClaimNeutral ==
    \A muid \in DOMAIN by_muid, c \in world.counts :
       LET s == by_muid[muid]
       IN /\ AfterIndThenGot(State, muid, c) = dqs[s].oob_results
          /\ dq_oob_results_got(State, muid, c).dqs[s].oob_results = MAX(dqs[s].oob_results - c, 0)

\* The same, for the queries that are not lingering.
C15_NeutralWhenActive ==
    \A muid \in DOMAIN by_muid, c \in world.counts :
       LET s == by_muid[muid]
       IN /\ "LINGER" \notin dqs[s].flags => AfterIndThenGot(State, muid, c) = dqs[s].oob_results
          /\ dq_oob_results_got(State, muid, c).dqs[s].oob_results = MAX(dqs[s].oob_results - c, 0)

\* A lingering query had unclaimed OOB hits when hits were claimed for it.
C15_Witness ==
    /\ last.op = "dq_oob_results_got"
    /\ \E s \in dqueries :
          /\ "LINGER" \in dqs[s].flags
          /\ dqs[s].oob_results = 1
          /\ dqs[s].linger_results = 0
          /\ dqs[s].results = 0

\* The step answered that the query exists and wants n results.
Wanted(n) == last'.out = {[type |-> "return", val |-> TRUE], [type |-> "wanted", n |-> n]}

\* C16, as claimed, kept_results being the count last reported by the leaf
\* (for a local query, the count the search store gives in the call): no
\* query exists for an unknown MUID; 0 wanted when user-cancelled; otherwise
\* max_results - kept_results if kept_results < max_results, otherwise 1 if
\* guidance was received and kept_results < fin_results, otherwise 0.
C16_WantedFromReportedKept ==
    [][\A muid \in GUIDs : \A k \in WantedKepts(muid) :
         GetResultsWantedOf(muid, k)
         => IF muid \notin DOMAIN by_muid
            THEN last'.out = {[type |-> "return", val |-> FALSE]}
            ELSE LET s == by_muid[muid]
                     dq == dqs[s]
                     kept_results == IF dq.node_id = NODE_ID_SELF THEN k ELSE dq.kept_results
                 IN IF "USR_CANCELLED" \in dq.flags THEN Wanted(0)
                    ELSE IF kept_results < dq.max_results
                         THEN Wanted(dq.max_results - kept_results)
                    ELSE IF "GOT_GUIDANCE" \in dq.flags /\ kept_results < dq.fin_results
                         THEN Wanted(1)
                    ELSE Wanted(0)]_vars

\* The results the engine holds kept for the query dq: what the search
\* store says (k) for a local query; for the query of a leaf, a third of the
\* count the leaf last reported plus the results received since, or all the
\* results received when the leaf never reported.
KeptEstimate(dq, k) ==
    IF dq.node_id = NODE_ID_SELF THEN k
    ELSE IF "GOT_GUIDANCE" \in dq.flags THEN (dq.kept_results \div 3) + dq.new_results
    ELSE dq.results

\* The same, kept_results being the estimate in both comparisons.
C16_WantedFromEstimate ==
    [][\A muid \in DOMAIN by_muid : \A k \in WantedKepts(muid) :
         GetResultsWantedOf(muid, k)
         => LET dq == dqs[by_muid[muid]]
                K == KeptEstimate(dq, k)
            IN IF "USR_CANCELLED" \in dq.flags THEN Wanted(0)
               ELSE IF K < dq.max_results THEN Wanted(dq.max_results - K)
               ELSE IF "GOT_GUIDANCE" \in dq.flags /\ K < dq.fin_results THEN Wanted(1)
               ELSE Wanted(0)]_vars

\* C16: the query of results wanted answers that no query exists for an
\* unknown MUID, and changes nothing.  For a known query it answers 0 when
\* the query is user-cancelled; otherwise max_results - K if
\* K < max_results, K being the estimate of the results kept; otherwise 1 if
\* guidance was received and the count last reported by the leaf is below
\* fin_results; otherwise 0.  The answer never exceeds max_results, and
\* nothing changes but the kept count of a local query, refreshed from
\* the search store.
C16_ResultsWanted ==
    [][\A muid \in GUIDs : \A k \in WantedKepts(muid) :
         GetResultsWantedOf(muid, k)
         => IF muid \notin DOMAIN by_muid
            THEN /\ last'.out = {[type |-> "return", val |-> FALSE]}
                 /\ UNCHANGED <<dqs, dqueries, by_node_id, by_muid, by_leaf_muid,
                                callout_queue, mq, dyn_query_id, failed>>
            ELSE LET s == by_muid[muid]
                     dq == dqs[s]
                     K == KeptEstimate(dq, k)
                     n == IF "USR_CANCELLED" \in dq.flags THEN 0
                          ELSE IF K < dq.max_results THEN dq.max_results - K
                          ELSE IF "GOT_GUIDANCE" \in dq.flags
                                  /\ dq.kept_results < dq.fin_results THEN 1
                          ELSE 0
                 IN /\ Wanted(n)
                    /\ n <= dq.max_results
                    /\ dqs' = IF dq.node_id = NODE_ID_SELF /\ "USR_CANCELLED" \notin dq.flags
                              THEN [dqs EXCEPT ![s].kept_results = k]
                              ELSE dqs
                    /\ UNCHANGED <<dqueries, by_node_id, by_muid, by_leaf_muid,
                                   callout_queue, mq, dyn_query_id, failed>>]_vars

\* One result is wanted for a query whose leaf reported more results kept
\* than the query asks for, and fewer than the final count.
C16_Witness ==
    /\ last.op = "dq_get_results_wanted"
    /\ [type |-> "wanted", n |-> 1] \in last.out
    /\ \E s \in dqueries :
          /\ "GOT_GUIDANCE" \in dqs[s].flags
          /\ "USR_CANCELLED" \notin dqs[s].flags
          /\ dqs[s].kept_results >= 3 * dqs[s].max_results
          /\ dqs[s].kept_results < dqs[s].fin_results

\* The step leaves the engine in state S, having sent what S.out holds.
SameAs(S) ==
    /\ dqs' = S.dqs
    /\ dqueries' = S.dqueries
    /\ by_node_id' = S.by_node_id
    /\ by_muid' = S.by_muid
    /\ by_leaf_muid' = S.by_leaf_muid
    /\ callout_queue' = S.cq
    /\ mq' = S.mq
    /\ dyn_query_id' = S.dyn_query_id
    /\ failed' = S.failed
    /\ last'.out = S.out

\* The status timer e of a query that waits for its status has fired.
GuidanceTimeout(e) == Live(e) /\ "WAITING" \in dqs[e.obj].flags /\ ResultsExpiredOf(e)

\* The leaf of the query dq loses its leaf guidance with this timeout.
Degraded(dq) == "GOT_GUIDANCE" \notin dq.flags /\ dq.stat_timeouts + 1 >= 2

\* The engine when the timer e has fired and the timeout is accounted for.
TimedOut(e) ==
    LET s == e.obj
        dq == dqs[s]
        off == IF Degraded(dq) THEN {"WAITING", "LEAF_GUIDED"} ELSE {"WAITING"}
        told == IF Degraded(dq)
                THEN {[type |-> "leaf_guidance", node |-> dq.node_id, on |-> FALSE]}
                ELSE {}
    IN [State EXCEPT !.cq = @ \ {e},
                     !.out = told,
                     !.dqs[s].results_ev = FALSE,
                     !.dqs[s].stat_timeouts = @ + 1,
                     !.dqs[s].flags = @ \ off]

\* The iteration step ran on the query of the timer e, from the state T.
Iterated(e, T) ==
    \E env \in Envs(dqs[e.obj].queried, FALSE) : SameAs(dq_send_next(T, e.obj, env))

\* C17, as claimed: when the status timer of a waiting query fires,
\* stat_timeouts is incremented and the query stops waiting; at the second
\* timeout of a query that never got guidance, the query is no longer
\* leaf-guided and its leaf is marked as giving no guidance; in all cases
\* the iteration step then runs.
C17_TimeoutAlwaysIterates ==
    [][\A e \in callout_queue : GuidanceTimeout(e) => Iterated(e, TimedOut(e))]_vars

\* C17: when the status timer of a waiting query fires, stat_timeouts is
\* incremented and the query stops waiting; at the second timeout of a
\* query that never got guidance, the query is no longer leaf-guided and
\* its leaf is marked as giving no guidance.  Then, if the query is neither
\* leaf-guided nor routing its hits, it is ended: it lingers for 180 s,
\* with no results event, and nothing is sent; otherwise the iteration step
\* runs.
C17_TimeoutIteratesIfGuidedOrRouting ==
    [][\A e \in callout_queue :
         GuidanceTimeout(e)
         => LET s == e.obj
                T == TimedOut(e)
            IN IF T.dqs[s].flags \cap {"LEAF_GUIDED", "ROUTING_HITS"} = {}
               THEN /\ dqs' = [T.dqs EXCEPT ![s].flags = @ \cup {"LINGER"}]
                    /\ EventsNext(s, "dq_results_expired") = {}
                    /\ EventsNext(s, "dq_expired")
                          = {Event("dq_expired", s, dqs[s].qid, DQ_LINGER_TIMEOUT)}
                    /\ mq' = mq
                    /\ last'.out = T.out
               ELSE Iterated(e, T)]_vars

\* The second status request of an OOB-proxied query timed out, no status
\* ever received: its leaf gives no guidance any more, and in the same call
\* the query was sent to one more ultrapeer.
C17_Witness ==
    /\ last.op = "dq_results_expired"
    /\ \E s \in dqueries :
          /\ dqs[s].stat_timeouts = 2
          /\ dqs[s].flags = {"ROUTING_HITS"}
          /\ [type |-> "leaf_guidance", node |-> dqs[s].node_id, on |-> FALSE] \in last.out
          /\ Dispatched(last.out, s)
          /\ dqs[s].results_ev
          /\ Cardinality(dqs[s].queried) = 5

\* C18: when a message of a live query is freed without having been sent,
\* its target leaves the queried set of the query, which is what makes an
\* ultrapeer a candidate of the iteration step again; pending is
\* decremented and, if it reaches 0 while a results event is armed, that
\* event is rescheduled to 1 ms; otherwise the events are left as they were.
\* The hook sends nothing and counts no ultrapeer as queried.
C18_DroppedTargetEligibleAgain ==
    [][\A pmi \in mq :
         (~StalePmi(pmi) /\ PmsgFreeOf(pmi, FALSE))
         => LET s == pmi.dq
                dq == dqs[s]
            IN /\ pmi.node_id \in dq.queried
               /\ \A env \in Envs(dq.queried, dq.node_id = NODE_ID_SELF) :
                     pmi.node_id \in env.elig =>
                        /\ pmi.node_id \notin dq_fill_next_up(State, s, env)
                        /\ pmi.node_id \in dq_fill_next_up([State EXCEPT !.dqs = dqs'], s, env)
               /\ dqs' = [dqs EXCEPT ![s].queried = @ \ {pmi.node_id},
                                     ![s].pending = @ - 1]
               /\ callout_queue' =
                     IF dq.pending = 1 /\ dq.results_ev
                     THEN (callout_queue \ ResultsEvents(s))
                             \cup {Event("dq_results_expired", s, dq.qid, 1)}
                     ELSE callout_queue
               /\ mq' = mq \ {pmi}
               /\ last'.out = {}]_vars

\* The last pending message of a query that was sent to two ultrapeers has
\* just been dropped: the results event is due in 1 ms.
C18_Witness ==
    /\ last.op = "dq_pmsg_free"
    /\ \E s \in dqueries :
          /\ dqs[s].pending = 0
          /\ dqs[s].up_sent = 2
          /\ Cardinality(dqs[s].queried) = 2
          /\ dqs[s].results_ev
          /\ {e.delay : e \in Mine(State, s, "dq_results_expired")} = {1}

\* The query is sent again to an ultrapeer whose message was dropped: the
\* world has three ultrapeers, and the probe queried them all.
C18_Reselected ==
    /\ last.op = "dq_results_expired"
    /\ \E s \in dqueries :
          /\ \E o \in last.out : o.type = "query" /\ o.dq = s
          /\ dqs[s].up_sent = 2
          /\ dqs[s].pending = 1
          /\ Cardinality(dqs[s].queried) = 3

\* Every query has one expiration event: the one of the launch, due in
\* 600 s, as long as it is not lingering, and one due in 180 s or 1 ms once
\* it is.
ExpirationInv ==
    \A s \in dqueries :
       /\ dqs[s].expire_ev
       /\ Cardinality(Mine(State, s, "dq_expired")) = 1
       /\ \A e \in Mine(State, s, "dq_expired") :
             IF "LINGER" \in dqs[s].flags THEN e.delay \in {1, DQ_LINGER_TIMEOUT}
             ELSE e.delay = DQ_MAX_LIFETIME

ExpirationStep ==
    /\ \A e \in callout_queue :
          (Live(e) /\ ExpiredOf(e))
          => LET s == e.obj
             IN IF "LINGER" \in dqs[s].flags
                THEN /\ s \notin dqueries'
                     /\ {x \in callout_queue' : x.obj = s} = {}
                ELSE /\ Survives(s)
                     /\ e.delay = DQ_MAX_LIFETIME
                     /\ dqs'[s].flags = (dqs[s].flags \ {"WAITING"}) \cup {"LINGER"}
                     /\ ~dqs'[s].results_ev
                     /\ EventsNext(s, "dq_results_expired") = {}
                     /\ dqs'[s].expire_ev
                     /\ EventsNext(s, "dq_expired")
                           = {Event("dq_expired", s, dqs[s].qid, DQ_LINGER_TIMEOUT)}
                     /\ ~Dispatched(last'.out, s)
    /\ \A s \in dqueries :
          (Survives(s) /\ "LINGER" \in dqs[s].flags) => "LINGER" \in dqs'[s].flags

\* C19: a query that is not lingering holds the expiration event armed at
\* its launch, due in 600 s.  When that event fires, the results event is
\* cancelled and the query enters lingering, with a new expiration event
\* due in 180 s; it stays lingering from then on, so that the expiration
\* of an active query happens once.  When the expiration event of a
\* lingering query fires, the query is freed: the expiration event frees no
\* query that is not lingering.
C19_ExpirationLingersThenFrees == []ExpirationInv /\ [][ExpirationStep]_vars

\* The lifetime of a query ran out while it was active, a message still in
\* the queue: it lingers, due to expire in 180 s.
C19_Witness ==
    /\ last.op = "dq_expired"
    /\ \E s \in dqueries :
          /\ "LINGER" \in dqs[s].flags
          /\ "USR_CANCELLED" \notin dqs[s].flags
          /\ dqs[s].pending = 1
          /\ dqs[s].up_sent = 2
          /\ ~dqs[s].results_ev
          /\ {e.delay : e \in Mine(State, s, "dq_expired")} = {DQ_LINGER_TIMEOUT}

\* A lingering query has no results event, and dq_terminate() was never
\* called for a query that was lingering or that had one.
LingeringInv ==
    /\ \A s \in dqueries :
          "LINGER" \in dqs[s].flags
          => /\ ~dqs[s].results_ev
             /\ Mine(State, s, "dq_results_expired") = {}
             /\ "WAITING" \notin dqs[s].flags
    /\ failed \cap {"dq_terminate: linger", "dq_terminate: results_ev"} = {}

\* The steps that make a query linger, and those made while it does.
LingeringStep ==
    \A s \in dqueries :
       Survives(s)
       => /\ "LINGER" \in dqs[s].flags => "LINGER" \in dqs'[s].flags
          /\ ("LINGER" \notin dqs[s].flags /\ "LINGER" \in dqs'[s].flags)
             => /\ "WAITING" \notin dqs'[s].flags
                /\ ~dqs'[s].results_ev
                /\ EventsNext(s, "dq_results_expired") = {}
                /\ dqs'[s].expire_ev
                /\ EventsNext(s, "dq_expired")
                      = {Event("dq_expired", s, dqs[s].qid,
                               IF "USR_CANCELLED" \in dqs'[s].flags THEN 1
                               ELSE DQ_LINGER_TIMEOUT)}
                /\ Mine(State, s, "dq_expired") \cap callout_queue' = {}

\* C20: the step that ends a query leaves it lingering, not waiting for a
\* status, without results event, and with its expiration event replaced
\* by one due in 1 ms if the query is user-cancelled, in 180 s if not.  In
\* every reachable state a lingering query has no results event.  A
\* lingering query stays so until it is freed: it is ended once.
C20_TerminationLingersOnce == []LingeringInv /\ [][LingeringStep]_vars

\* A query that waited for a status, the request having timed out once, was
\* ended by the iteration step: it lingers, due to expire in 180 s.
C20_Witness ==
    /\ last.op = "dq_results_expired"
    /\ \E s \in dqueries :
          /\ "LINGER" \in dqs[s].flags
          /\ "USR_CANCELLED" \notin dqs[s].flags
          /\ dqs[s].stat_timeouts = 1
          /\ dqs[s].up_sent = 3
          /\ ~dqs[s].results_ev
          /\ {e.delay : e \in Mine(State, s, "dq_expired")} = {DQ_LINGER_TIMEOUT}

----------------------------------------------------------------------------
(* C22 *)

\* The horizon just computed, for the degree and the TTL of the world.
HorizonOf(d, t) == last.op = "dq_get_horizon" /\ world.degree = d /\ world.ttl = t

Horizon == last.out

\* The value the table holds for an input brought back to its edges.
Clamped == dq_get_horizon(MIN(world.degree, MAX_DEGREE), MIN(world.ttl, MAX_TTL))

----------------------------------------------------------------------------
(* C21 *)

\* Between two handlers, every query holds an expiration event that is in
\* the callout queue, and no assertion of the engine has failed.
ArmedInv ==
    /\ \A s \in dqueries :
          /\ dqs[s].expire_ev
          /\ \E e \in callout_queue : e.fn = "dq_expired" /\ e.obj = s /\ Live(e)
    /\ Running

Freed(s) == s \notin dqueries

\* C21: every query has an expiration event armed between any two
\* handlers, while active and while lingering; and, the armed events being
\* eventually fired, every query launched is eventually freed, whatever
\* hits, statuses, message drops and node removals happen meanwhile.
C21_EveryQueryFreed ==
    /\ []ArmedInv
    /\ \A s \in Slots : (s \in dqueries) ~> Freed(s)

\* A query was sent out, lingered and was freed by its expiration event
\* while a message of it was still queued.
C21_Witness ==
    /\ last.op = "dq_expired"
    /\ dyn_query_id = 1
    /\ dqueries = {}
    /\ mq # {}
    /\ callout_queue = {}

----------------------------------------------------------------------------
(* C23 *)

\* The query at address s has the MUID of its messages indexed for another
\* query.
Shadowed(s) ==
    /\ s \in dqueries
    /\ dqs[s].muid \in DOMAIN by_muid
    /\ by_muid[dqs[s].muid] # s

\* The step launches a query whose MUID is indexed already: `by_muid' stays
\* as it is, a warning is logged, and the new query is in `dqueries', in
\* the list of its node and, if it has a leaf MUID that is not indexed
\* either, in `by_leaf_muid' under it.
ConflictingLaunch ==
    \A s \in dqueries' \ dqueries :
       dqs'[s].muid \in DOMAIN by_muid
       => /\ by_muid' = by_muid
          /\ [type |-> "warning", what |-> "conflicting MUID"] \in last'.out
          /\ dqs'[s].magic = DQUERY_MAGIC
          /\ dqs'[s].node_id # NODE_ID_SELF
             => /\ dqs'[s].node_id \in DOMAIN by_node_id'
                /\ s \in Range(by_node_id'[dqs'[s].node_id].list)
          /\ (dqs'[s].lmuid # NULL /\ dqs'[s].lmuid \notin DOMAIN by_leaf_muid)
             => /\ dqs'[s].lmuid \in DOMAIN by_leaf_muid'
                /\ by_leaf_muid'[dqs'[s].lmuid] = s

\* Results for a MUID change the query `by_muid' maps it to, none else.
HitsToIndexedOnly ==
    \A muid \in DOMAIN by_muid, count \in world.counts :
       ((\E status \in world.statuses : GotResultsOf(muid, count, status))
            \/ OobResultsIndOf(muid, count) \/ OobResultsGotOf(muid, count))
       => \A s \in dqueries \ {by_muid[muid]} : dqs'[s] = dqs[s]

\* A status with the leaf MUID of a shadowed query, from its node, is
\* accepted for that query.
ShadowedGuided ==
    \A s \in dqueries : \A kept \in world.kepts :
       LET dq == dqs[s] IN
       (/\ Shadowed(s)
        /\ dq.lmuid # NULL
        /\ dq.lmuid \notin DOMAIN by_muid
        /\ dq.lmuid \in DOMAIN by_leaf_muid
        /\ by_leaf_muid[dq.lmuid] = s
        /\ GotQueryStatusOf(dq.lmuid, dq.node_id, kept))
       => /\ "GOT_GUIDANCE" \in dqs'[s].flags
          /\ dqs'[s].kept_results = kept
          /\ dqs'[s].last_status = dq.up_sent
          /\ \A r \in dqueries \ {s} : dqs'[r] = dqs[r]

\* No step changes the entry of `by_muid' for a query that stays, and no
\* step but a launch adds one.
EntryKept ==
    /\ \A m \in DOMAIN by_muid :
          Survives(by_muid[m]) => (m \in DOMAIN by_muid' /\ by_muid'[m] = by_muid[m])
    /\ \A m \in (DOMAIN by_muid') \ DOMAIN by_muid : by_muid'[m] \in dqueries' \ dqueries

\* C23: a query launched with a MUID that `by_muid' holds for a live query
\* leaves that entry to the first query; it is created all the same, in
\* `dqueries', in the list of its node and in `by_leaf_muid' under its leaf
\* MUID when it has one that is free, and a status with that leaf MUID
\* reaches it; results for the MUID go to the first query alone; freeing
\* the newcomer, before or after the first query, leaves the entry of the
\* first query as it is.
C23_ConflictingMuidKeepsFirst ==
    [][ConflictingLaunch /\ HitsToIndexedOnly /\ ShadowedGuided /\ EntryKept]_vars

\* Two queries have the same MUID, indexed for the first; the second one,
\* OOB-proxied, got a status through its leaf MUID, and the first none.
C23_Witness ==
    /\ last.op = "dq_got_query_status"
    /\ \E s, r \in dqueries :
          /\ Shadowed(s)
          /\ by_muid[dqs[s].muid] = r
          /\ dqs[r].qid < dqs[s].qid
          /\ dqs[s].lmuid # NULL
          /\ "GOT_GUIDANCE" \in dqs[s].flags
          /\ "GOT_GUIDANCE" \notin dqs[r].flags

----------------------------------------------------------------------------
(* C24 *)

\* What the collaborators may answer to the routine of the event e when the
\* node is not an ultrapeer.
NotUltraEnvs(e) ==
    IF Live(e)
    THEN {env \in Envs(dqs[e.obj].queried, dqs[e.obj].node_id = NODE_ID_SELF) : ~env.ultra}
    ELSE {}

\* The results event e fires when the node is not an ultrapeer.
FiresNotUltra(e, env) ==
    /\ Live(e)
    /\ ResultsExpiredOf(e)
    /\ SameAs(dq_results_expired([State EXCEPT !.cq = @ \ {e}], e.obj, env))

\* The step is a local launch made when the node is not an ultrapeer.
LaunchLocalNotUltra ==
    /\ LaunchLocal
    /\ \E h \in Handles, muid \in GUIDs, ttl \in world.ttls, urn \in world.urns :
          \E env \in {x \in Envs({}, TRUE) : ~x.ultra} :
             SameAs(dq_launch_local(State, walloc, h, [muid |-> muid, ttl |-> ttl, urn |-> urn], env))

NothingLaunched ==
    UNCHANGED <<dqs, dqueries, by_node_id, by_muid, by_leaf_muid, callout_queue,
                mq, dyn_query_id, failed>>

\* C24, as stated: when the results event of a query fires (the wait for
\* results or the wait for a status timing out) and the node is not an
\* ultrapeer, the query is ended and lingers, no query message and no
\* status request being sent; a local launch made when the node is not an
\* ultrapeer creates no query and changes no index.
C24_NotUltraTerminates ==
    [][/\ \A e \in callout_queue : \A env \in NotUltraEnvs(e) :
             FiresNotUltra(e, env)
             => /\ Survives(e.obj)
                /\ "LINGER" \in dqs'[e.obj].flags
                /\ ~Dispatched(last'.out, e.obj)
       /\ LaunchLocalNotUltra => NothingLaunched]_vars

\* The results event e is one that asks the leaf for its status: the query
\* is leaf-guided, not waiting already, has been sent to three ultrapeers
\* or more since the last status, and, if it routes its hits, has got 20
\* new results or more.
StatusDue(e) ==
    LET dq == dqs[e.obj]
    IN /\ "WAITING" \notin dq.flags
       /\ "LEAF_GUIDED" \in dq.flags
       /\ U32(dq.up_sent - dq.last_status) >= DQ_STAT_THRESHOLD
       /\ ("ROUTING_HITS" \in dq.flags => dq.new_results >= DQ_MIN_FOR_GUIDANCE)

\* What the code does: the query is ended unless a status is due, in which
\* case the status is requested, with the node not an ultrapeer, and the
\* query waits for it (or is freed, its leaf being gone).
C24_NotUltraTerminatesUnlessStatusDue ==
    [][/\ \A e \in callout_queue : \A env \in NotUltraEnvs(e) :
             FiresNotUltra(e, env)
             => IF StatusDue(e)
                THEN \/ ~Survives(e.obj)
                     \/ /\ "WAITING" \in dqs'[e.obj].flags
                        /\ "LINGER" \notin dqs'[e.obj].flags
                        /\ \E o \in last'.out : o.type = "qstat_req" /\ o.dq = e.obj
                ELSE /\ Survives(e.obj)
                     /\ "LINGER" \in dqs'[e.obj].flags
                     /\ ~Dispatched(last'.out, e.obj)
       /\ LaunchLocalNotUltra => NothingLaunched]_vars

\* The results event of a query is armed and a status is due at its next
\* firing: fired when the node is not an ultrapeer, its routine sends a
\* status request.
C24_Witness ==
    \E e \in callout_queue : \E env \in NotUltraEnvs(e) :
       /\ e.fn = "dq_results_expired"
       /\ StatusDue(e)
       /\ Dispatched(dq_results_expired([State EXCEPT !.cq = @ \ {e}], e.obj, env).out, e.obj)

----------------------------------------------------------------------------
(* C25 *)

\* The query dq is neither leaf-guided nor routing its hits.
Blind(dq) == dq.flags \cap {"LEAF_GUIDED", "ROUTING_HITS"} = {}

\* The query dq, leaf-guided and not routing its hits, waits for a status
\* that it never got, for the second time.
LastChance(dq) ==
    /\ {"WAITING", "LEAF_GUIDED"} \subseteq dq.flags
    /\ "ROUTING_HITS" \notin dq.flags
    /\ Degraded(dq)

\* C25: when the results event of a query that is neither leaf-guided nor
\* routing its hits fires, the query is ended and lingers, and the step
\* sends no query message and no status request; so does the step in
\* which the second status timeout takes leaf guidance away from a query
\* that does not route its hits.
C25_BlindQueryTerminates ==
    [][\A e \in callout_queue :
          (Live(e) /\ ResultsExpiredOf(e) /\ (Blind(dqs[e.obj]) \/ LastChance(dqs[e.obj])))
          => /\ Survives(e.obj)
             /\ "LINGER" \in dqs'[e.obj].flags
             /\ Blind(dqs'[e.obj])
             /\ ~Dispatched(last'.out, e.obj)
             /\ mq' = mq
             /\ EventsNext(e.obj, "dq_results_expired") = {}
             /\ dqs'[e.obj].queried = dqs[e.obj].queried]_vars

\* A leaf-guided query lost its leaf guidance at its second status timeout
\* and lingers.
C25_Witness ==
    /\ last.op = "dq_results_expired"
    /\ \E s \in dqueries :
          /\ Blind(dqs[s])
          /\ "LINGER" \in dqs[s].flags
          /\ dqs[s].stat_timeouts = DQ_MAX_STAT_TIMEOUT
          /\ [type |-> "leaf_guidance", node |-> dqs[s].node_id, on |-> FALSE] \in last.out

----------------------------------------------------------------------------
(* C26 *)

\* The step is a launch for which the collaborators answered env.
LaunchedWith(env) ==
    \/ /\ LaunchNet
       /\ \E n \in Leaves, muid \in GUIDs, ttl \in world.ttls, speed \in world.speeds,
             urn \in world.urns, px \in world.proxies :
            SameAs(dq_launch_net(State, walloc, n,
                     [muid |-> muid, ttl |-> ttl, speed |-> speed, urn |-> urn,
                      guide |-> px.guide, proxied |-> px.proxied,
                      can_proxy |-> px.can_proxy, orig |-> px.orig], env))
    \/ /\ LaunchLocal
       /\ \E h \in Handles, muid \in GUIDs, ttl \in world.ttls, urn \in world.urns :
            SameAs(dq_launch_local(State, walloc, h, [muid |-> muid, ttl |-> ttl, urn |-> urn], env))

\* What the collaborators may answer at a launch when no ultrapeer fit for
\* the query has a routing table that admits it.
NoProbeEnvs(local) == {env \in Envs({}, local) : env.elig \cap env.route = {} /\ env.ultra}

\* The first ultrapeer of `order' that the iteration step of a query just
\* created, of TTL ttl, does not skip, none of them being admitted by its
\* routing table: NULL when it skips them all.
RECURSIVE FirstKept(_, _)
FirstKept(order, ttl) ==
    IF order = <<>> THEN NULL
    ELSE IF MIN(NodeMaxTtl(Head(order)), ttl) = 1 /\ NodeUpQrp(Head(order))
         THEN FirstKept(Tail(order), ttl)
         ELSE Head(order)

\* The outcome of a launch whose probe found no ultrapeer.
LaunchIterates(s, env) ==
    LET target == FirstKept(env.order, dqs'[s].ttl)
    IN /\ s \in dqueries'
       /\ dqs'[s].up_sent = 0
       /\ IF target # NULL
          THEN /\ "LINGER" \notin dqs'[s].flags
               /\ \E pmi \in mq' : mq' = mq \cup {pmi} /\ pmi \notin mq /\ pmi.node_id = target
               /\ dqs'[s].queried = {target}
               /\ dqs'[s].pending = 1
               /\ EventsNext(s, "dq_results_expired")
                     = {Event("dq_results_expired", s, dqs'[s].qid, DQ_QUERY_TIMEOUT)}
          ELSE /\ "LINGER" \in dqs'[s].flags
               /\ mq' = mq
               /\ dqs'[s].queried = {}
               /\ EventsNext(s, "dq_results_expired") = {}

\* C26: at a launch whose probe finds no ultrapeer admitted by its routing
\* table, the query is created and the iteration step runs in the same
\* call: when it finds an ultrapeer that it does not skip, one message is
\* queued for that ultrapeer and the results event is armed; the query is
\* ended at its launch only when the iteration step finds none.
C26_EmptyProbeIterates ==
    [][\A local \in BOOLEAN : \A env \in NoProbeEnvs(local) :
          (world.slots \ dqueries # {} /\ LaunchedWith(env)) => LaunchIterates(walloc, env)]_vars

\* A query was just launched: no routing table admitted it, and the
\* iteration step sent it to the ultrapeer of degree 6.
C26_Witness ==
    /\ last.op \in {"dq_launch_net", "dq_launch_local"}
    /\ \E s \in dqueries :
          /\ "LINGER" \notin dqs[s].flags
          /\ dqs[s].queried = {"u1"}
          /\ {e.delay : e \in Mine(State, s, "dq_results_expired")} = {DQ_QUERY_TIMEOUT}

----------------------------------------------------------------------------
(* C27 *)

\* What the collaborators may answer to the routine of the live event e.
EnvsOf(e) ==
    IF Live(e) THEN Envs(dqs[e.obj].queried, dqs[e.obj].node_id = NODE_ID_SELF) ELSE {}

\* The results event e fires, the collaborators answering env.
FiresWith(e, env) ==
    /\ ResultsExpiredOf(e)
    /\ SameAs(dq_results_expired([State EXCEPT !.cq = @ \ {e}], e.obj, env))

\* The routine of the results event e runs the iteration step: the query
\* is not ended for want of a way to count its results, and no status is
\* requested.
Iterating(e) ==
    /\ Live(e)
    /\ ~Blind(dqs[e.obj])
    /\ ~LastChance(dqs[e.obj])
    /\ ~StatusDue(e)

\* The ultrapeers the iteration step may send the query of e to.
Candidates(e, env) == env.elig \ dqs[e.obj].queried

\* The iteration step skips the candidate n.
Skipped(e, env, n) ==
    /\ dq_select_ttl(State, e.obj, n, Cardinality(Candidates(e, env)), env.kept) = 1
    /\ NodeUpQrp(n)
    /\ n \notin env.route

\* The grounds on which the iteration step ends the query, but the last:
\* the node is not an ultrapeer, the horizon is 500000 or more, as many
\* results are held kept as wanted, or as many ultrapeers were queried as
\* configured.
StopBefore(dq, env) ==
    \/ ~env.ultra
    \/ dq.horizon >= DQ_MAX_HORIZON
    \/ KeptEstimate(dq, env.kept) >= dq.max_results
    \/ dq.up_sent >= env.max_connections - env.normal_connections

\* The step ends the query of e and sends nothing.
Ended(e) ==
    /\ Survives(e.obj)
    /\ "LINGER" \in dqs'[e.obj].flags
    /\ ~Dispatched(last'.out, e.obj)
    /\ mq' = mq
    /\ EventsNext(e.obj, "dq_results_expired") = {}

\* The step sends the query of e to one ultrapeer and arms its results
\* event.
SentToOne(e) ==
    /\ Survives(e.obj)
    /\ "LINGER" \notin dqs'[e.obj].flags
    /\ \E pmi \in mq' :
          /\ pmi \notin mq
          /\ mq' = mq \cup {pmi}
          /\ pmi.dq = e.obj
          /\ {o \in last'.out : o.type \in {"query", "qstat_req"}}
                = {[type |-> "query", dq |-> e.obj, node |-> pmi.node_id, ttl |-> pmi.ttl]}
          /\ dqs'[e.obj].queried = dqs[e.obj].queried \cup {pmi.node_id}
    /\ dqs'[e.obj].results_ev
    /\ Cardinality(EventsNext(e.obj, "dq_results_expired")) = 1

\* The query dq has seen too many results for those it wants: as many as
\* fin_results, or more than fin_results if `above'.
Seen(dq, above) ==
    IF above THEN dq.results + dq.oob_results > dq.fin_results
    ELSE dq.results + dq.oob_results >= dq.fin_results

\* The rule of the iteration step.
IterationRule(above) ==
    \A e \in callout_queue : \A env \in EnvsOf(e) :
       (Iterating(e) /\ FiresWith(e, env))
       => LET dq == dqs[e.obj] IN
          IF StopBefore(dq, env) \/ Seen(dq, above)
          THEN Ended(e)
          ELSE (dq.pending < DQ_MAX_PENDING
                /\ \E n \in Candidates(e, env) : ~Skipped(e, env, n))
               => SentToOne(e)

C27_IterationStopsAbove == [][IterationRule(TRUE)]_vars

----------------------------------------------------------------------------
(* C28 *)

\* No query has more than 3 messages queued and not sent yet.
PendingInv == \A s \in dqueries : dqs[s].pending <= DQ_MAX_PENDING

\* The iteration step of a query that it has no ground to end and that has
\* 3 messages pending sends nothing, leaves the queried set as it is and
\* arms the results event for result_timeout.
WaitsWhenPending ==
    \A e \in callout_queue : \A env \in EnvsOf(e) :
       LET dq == dqs[e.obj] IN
       (/\ Iterating(e)
        /\ FiresWith(e, env)
        /\ ~StopBefore(dq, env)
        /\ ~Seen(dq, FALSE)
        /\ dq.pending >= DQ_MAX_PENDING)
       => /\ Survives(e.obj)
          /\ "LINGER" \notin dqs'[e.obj].flags
          /\ ~Dispatched(last'.out, e.obj)
          /\ mq' = mq
          /\ dqs'[e.obj].queried = dq.queried
          /\ dqs'[e.obj].pending = dq.pending
          /\ dqs'[e.obj].result_timeout = dq.result_timeout
          /\ dqs'[e.obj].results_ev
          /\ EventsNext(e.obj, "dq_results_expired")
                = {Event("dq_results_expired", e.obj, dq.qid, dq.result_timeout)}

\* C28: an iteration step with no ground to end the query and 3 messages
\* pending sends nothing and arms the results event for result_timeout;
\* and no query ever has more than 3 messages pending.
C28_WaitsWhenThreePending == []PendingInv /\ [][WaitsWhenPending]_vars

\* The results event of the probe fired before any of its three messages
\* was sent: the query waits for result_timeout more.
C28_Witness ==
    /\ last.op = "dq_results_expired"
    /\ \E s \in dqueries :
          /\ "LINGER" \notin dqs[s].flags
          /\ dqs[s].pending = DQ_MAX_PENDING
          /\ dqs[s].up_sent = 0
          /\ Cardinality(InFlight(s)) = DQ_MAX_PENDING
          /\ {e.delay : e \in Mine(State, s, "dq_results_expired")} = {dqs[s].result_timeout}

----------------------------------------------------------------------------
(* C29 *)

\* The greatest TTL the query of the world may have on its way to the node
\* of the world.
TopTtl == MIN(NodeMaxTtl(world.node), world.ttl)

\* The results still needed.
Needed == world.max_results - world.results

\* horizon(degree, t) <= to_reach_per_node, results_per_up being the real
\* ratio results / max(horizon, 1), or 0.000001 if that is greater:
\* to_reach_per_node is needed * max(horizon, 1) / (results * connections),
\* or needed * 1000000 / connections.
FitsRatio(t) ==
    LET h == MAX(world.horizon, 1)
        reach == dq_get_horizon(NodeDegree(world.node), t)
    IN IF world.results * 1000000 >= h
       THEN reach * world.results * world.connections <= Needed * h
       ELSE reach * world.connections <= Needed * 1000000

\* The same, results_per_up being the integer quotient of results by
\* max(horizon, 1), converted to a double.
FitsQuotient(t) ==
    LET q == world.results \div MAX(world.horizon, 1)
        reach == dq_get_horizon(NodeDegree(world.node), t)
    IN IF q >= 1
       THEN reach * q * world.connections <= Needed
       ELSE reach * world.connections <= Needed * 1000000

Least(T) == CHOOSE t \in T : \A u \in T : t <= u
Greatest(T) == CHOOSE t \in T : \A u \in T : t >= u

\* C29, as stated: the TTL selected is the smallest TTL of
\* 1..min(node.max_ttl, query.ttl) whose horizon is at most
\* to_reach_per_node, results_per_up being a real ratio, and
\* min(node.max_ttl, query.ttl) when there is none.
C29_SmallestTtlThatFits ==
    last.op = "dq_select_ttl"
    => LET T == {t \in 1..TopTtl : FitsRatio(t)}
       IN last.out = IF T = {} THEN TopTtl ELSE Least(T)

\* The statement with the greatest TTL in place of the smallest, the ratio
\* still real: not what the code computes either.
C29_GreatestTtlThatFitsRatio ==
    last.op = "dq_select_ttl"
    => LET T == {t \in 1..TopTtl : FitsRatio(t)}
       IN last.out = IF T = {} THEN TopTtl ELSE Greatest(T)

\* C29, amended: the TTL selected is the greatest TTL of
\* 1..min(node.max_ttl, query.ttl) whose horizon is at most
\* to_reach_per_node, results_per_up being the integer quotient of results
\* by max(horizon, 1), and min(node.max_ttl, query.ttl) when there is none.
C29_GreatestTtlThatFitsQuotient ==
    last.op = "dq_select_ttl"
    => LET T == {t \in 1..TopTtl : FitsQuotient(t)}
       IN last.out = IF T = {} THEN TopTtl ELSE Greatest(T)

\* 9 results for a horizon of 5, 41 more needed, and one candidate, of
\* degree 30: TTL 2 is selected, for a horizon of 24.
C29_Witness ==
    /\ last.op = "dq_select_ttl"
    /\ world.results = 9
    /\ world.horizon = 5
    /\ world.max_results = DQ_LEAF_RESULTS
    /\ world.node = "u2"
    /\ world.connections = 1
    /\ world.ttl = 4
    /\ last.out = 2

----------------------------------------------------------------------------
(* C30 *)

\* The iteration step run for the results event e gets as far as its
\* selection loop: none of its grounds to end the query holds, and fewer
\* than 3 messages are pending.
Selecting(e, env) ==
    LET dq == dqs[e.obj] IN
    /\ Iterating(e)
    /\ ~StopBefore(dq, env)
    /\ ~Seen(dq, TRUE)
    /\ dq.pending < DQ_MAX_PENDING

\* The ultrapeers that messages are queued for in the step.
Targets == {pmi.node_id : pmi \in mq' \ mq}

\* The candidate at index i of the sorted vector is the first that the
\* selection loop does not skip.
FirstAt(e, env, i) ==
    /\ ~Skipped(e, env, env.order[i])
    /\ \A j \in 1..(i - 1) : Skipped(e, env, env.order[j])

\* The rule of the selection loop, for the results event e.
SelectionRule(e, env) ==
    /\ \A n \in Candidates(e, env) :
          Skipped(e, env, n) => /\ n \notin Targets
                                /\ Survives(e.obj) => n \notin dqs'[e.obj].queried
                                /\ \A o \in last'.out : o.type = "query" => o.node # n
    /\ \A i \in DOMAIN env.order :
          FirstAt(e, env, i) => /\ SentToOne(e)
                                /\ Targets = {env.order[i]}
    /\ (\A n \in Candidates(e, env) : Skipped(e, env, n)) => Ended(e)

\* C30: in an iteration step, a candidate for which TTL 1 is selected, that
\* has the routing table of a last hop, and whose table does not admit the
\* query, is sent nothing and does not join the queried set; the query is
\* sent to the first candidate, in the order of the sorted vector, that is
\* not skipped; and when all the candidates are skipped, the query is ended
\* with nothing sent.
C30_SkipsLastHopThatCannotRoute ==
    [][\A e \in callout_queue : \A env \in EnvsOf(e) :
          (Selecting(e, env) /\ FiresWith(e, env)) => SelectionRule(e, env)]_vars

\* The iteration step has just ended a guided query that was sent to the
\* ultrapeer of degree 6 alone, none of its grounds to end it holding: the
\* two candidates left, last hops both, were skipped.
C30_Witness ==
    /\ last.op = "dq_results_expired"
    /\ \E s \in dqueries :
          LET dq == dqs[s] IN
          /\ "LINGER" \in dq.flags
          /\ "LEAF_GUIDED" \in dq.flags
          /\ dq.queried = {"u1"}
          /\ dq.ttl = 1
          /\ dq.horizon < DQ_MAX_HORIZON
          /\ dq.results + dq.oob_results <= dq.fin_results
          /\ dq.results < dq.max_results
          /\ dq.up_sent < world.max_connections - world.normal_connections
          /\ dq.pending < DQ_MAX_PENDING

\* A results event is armed for an iteration step with two candidates, the
\* first of which would be skipped and the second not.
C30_WitnessSkippedFirst ==
    \E e \in callout_queue : \E env \in EnvsOf(e) :
       /\ e.fn = "dq_results_expired"
       /\ Selecting(e, env)
       /\ Len(env.order) = 2
       /\ Skipped(e, env, env.order[1])
       /\ FirstAt(e, env, 2)

\* A results event is armed for an iteration step all of whose candidates,
\* two of them, would be skipped.
C30_WitnessAllSkipped ==
    \E e \in callout_queue : \E env \in EnvsOf(e) :
       /\ e.fn = "dq_results_expired"
       /\ Selecting(e, env)
       /\ Len(env.order) = 2
       /\ \A n \in Candidates(e, env) : Skipped(e, env, n)

\* A results event is armed for an iteration step whose first candidate has
\* the routing table of a last hop that does not admit the query, and is
\* not skipped, a TTL above 1 being selected for it.
C30_WitnessAboveOne ==
    \E e \in callout_queue : \E env \in EnvsOf(e) :
       /\ e.fn = "dq_results_expired"
       /\ Selecting(e, env)
       /\ NodeUpQrp(env.order[1])
       /\ env.order[1] \notin env.route
       /\ FirstAt(e, env, 1)

----------------------------------------------------------------------------
(* C31 *)

\* The TTL of the probe of the world: the TTL of the query, minus 1 with
\* more than 9 candidates, minus 1 more with more than 18, 1 at least.
ProbeTtl ==
    MAX(world.ttl - (IF world.n > 9 THEN 1 ELSE 0) - (IF world.n > 18 THEN 1 ELSE 0), 1)

\* The ultrapeers the probe was sent to.
Probed == {pmi.node_id : pmi \in mq}

\* The probe of the world went, at its TTL or at the greatest TTL that the
\* ultrapeer takes if lower, to the candidates with the shallowest send
\* queues, 3 of them or all if fewer, all queried and pending.
ProbeSent ==
    /\ Cardinality(Probed) = MIN(world.n, DQ_PROBE_UP)
    /\ Cardinality(mq) = Cardinality(Probed)
    /\ \A a \in Probed : \A i \in 1..world.n :
          world.order[i] \notin Probed => world.qs[a] <= world.qs[world.order[i]]
    /\ Probed \subseteq {world.order[i] : i \in 1..world.n}
    /\ \A pmi \in mq : /\ pmi.dq = 1
                       /\ pmi.ttl = MIN(NodeMaxTtl(pmi.node_id), ProbeTtl)
                       /\ [type |-> "query", dq |-> 1, node |-> pmi.node_id, ttl |-> pmi.ttl]
                             \in last.out
    /\ dqs[1].queried = Probed
    /\ dqs[1].pending = Cardinality(Probed)

\* The one results event of the query of the world is due in `delay'.
ProbeWatchdog(delay) ==
    /\ dqs[1].results_ev
    /\ {e \in callout_queue : e.fn = "dq_results_expired"}
          = {Event("dq_results_expired", 1, dqs[1].qid, delay)}

\* C31, as stated: after a probe with n >= 1 candidates, the query went at
\* the probe TTL to the first min(n, 3) candidates in the order of their
\* send queues, and the results event is due in
\* 3 * (1500 ms + result_timeout).
C31_ProbeWaitsThreeTimes ==
    last.op = "dq_launch_net"
    => /\ ProbeSent
       /\ ProbeWatchdog(DQ_PROBE_UP * (DQ_PROBE_TIMEOUT + dqs[1].result_timeout))

\* C31, amended: the results event is due in
\* min(n, 3) * (1500 ms + result_timeout).
C31_ProbeWaitsPerNode ==
    last.op = "dq_launch_net"
    => /\ ProbeSent
       /\ ProbeWatchdog(MIN(world.n, DQ_PROBE_UP) * (DQ_PROBE_TIMEOUT + dqs[1].result_timeout))

\* A probe of a query of TTL 5 found two candidates: both got it at TTL 5
\* and the results event is due in 2 * (1500 + 3700) ms.
C31_Witness ==
    /\ last.op = "dq_launch_net"
    /\ world.n = 2
    /\ world.ttl = DQ_MAX_TTL
    /\ {pmi.ttl : pmi \in mq} = {DQ_MAX_TTL}
    /\ Cardinality(mq) = 2
    /\ \E e \in callout_queue : e.fn = "dq_results_expired" /\ e.delay = 10400

\* A probe of a query of TTL 5 found 19 candidates: three got it at TTL 3.
C31_WitnessCommon ==
    /\ last.op = "dq_launch_net"
    /\ world.n = MaxProbeUps
    /\ world.ttl = DQ_MAX_TTL
    /\ {pmi.ttl : pmi \in mq} = {3}
    /\ Cardinality(mq) = DQ_PROBE_UP

----------------------------------------------------------------------------
(* C32 *)

\* result_timeout of a live query is between 1500 and 3700 ms.
TimeoutInv ==
    \A s \in dqueries :
       dqs[s].result_timeout >= DQ_MIN_TIMEOUT /\ dqs[s].result_timeout <= DQ_QUERY_TIMEOUT

\* The step is an iteration dispatch for the query s, which it finds alive:
\* a results event or a status of the leaf has the query queued for one
\* more ultrapeer.
IterationDispatch(s) ==
    /\ last'.op \in {"dq_results_expired", "dq_got_query_status"}
    /\ \E pmi \in mq' \ mq : pmi.dq = s

\* The results that the iteration step of the query s counted.
CountedResults(s) ==
    LET dq == dqs'[s] IN
    IF dq.node_id = NODE_ID_SELF THEN dq.kept_results
    ELSE IF "GOT_GUIDANCE" \in dq.flags THEN (dq.kept_results \div 3) + dq.new_results
    ELSE dq.results

\* The results of the query s are low for its horizon.
LowResults(s) ==
    /\ dqs[s].horizon > DQ_MIN_HORIZON
    /\ CountedResults(s) < (DQ_LOW_RESULTS * dqs[s].horizon) \div DQ_MIN_HORIZON

\* The rule of result_timeout, for the query at s.
TimeoutRule(s) ==
    /\ (s \in dqueries' /\ ~Survives(s)) => dqs'[s].result_timeout = DQ_QUERY_TIMEOUT
    /\ Survives(s) =>
          IF IterationDispatch(s)
          THEN /\ dqs'[s].result_timeout =
                     IF LowResults(s)
                     THEN MAX(DQ_MIN_TIMEOUT, dqs[s].result_timeout - DQ_TIMEOUT_ADJUST)
                     ELSE dqs[s].result_timeout
               /\ EventsNext(s, "dq_results_expired")
                     = {Event("dq_results_expired", s, dqs'[s].qid,
                              dqs'[s].result_timeout
                                 + (dqs'[s].pending - 1) * DQ_PENDING_TIMEOUT)}
          ELSE dqs'[s].result_timeout = dqs[s].result_timeout

\* The same rule for the iteration step applied to a query of any
\* result_timeout, horizon, results and pending messages: the timeout is
\* lowered by 100 ms when the results are low for the horizon, to 1500 ms
\* at least, and the results event is due in
\* result_timeout + (pending - 1) * 1200 ms.
DispatchAdjusts ==
    last.op = "dq_send_next"
    => /\ dqs[1].pending = world.pending + 1
       /\ dqs[1].result_timeout =
             IF /\ world.horizon > DQ_MIN_HORIZON
                /\ world.results < (DQ_LOW_RESULTS * world.horizon) \div DQ_MIN_HORIZON
             THEN MAX(DQ_MIN_TIMEOUT, world.result_timeout - DQ_TIMEOUT_ADJUST)
             ELSE world.result_timeout
       /\ {e \in callout_queue : e.fn = "dq_results_expired"}
             = {Event("dq_results_expired", 1, dqs[1].qid,
                      dqs[1].result_timeout + (dqs[1].pending - 1) * DQ_PENDING_TIMEOUT)}
       /\ TimeoutInv

\* The iteration step found result_timeout at 1500 ms, with no result for a
\* horizon of 6000, and left it there.
DispatchAtFloor ==
    /\ last.op = "dq_send_next"
    /\ world.result_timeout = DQ_MIN_TIMEOUT
    /\ world.horizon = 2 * DQ_MIN_HORIZON
    /\ world.results = 0
    /\ dqs[1].result_timeout = DQ_MIN_TIMEOUT

----------------------------------------------------------------------------
(* C33 *)

\* Guidance is due for the query dq: it is leaf-guided, was sent to 3
\* ultrapeers or more since the last status, and, if it routes its hits,
\* got 20 new results or more since.
GuidanceDue(dq) ==
    /\ "LEAF_GUIDED" \in dq.flags
    /\ dq.up_sent - dq.last_status >= DQ_STAT_THRESHOLD
    /\ ("ROUTING_HITS" \in dq.flags => dq.new_results >= DQ_MIN_FOR_GUIDANCE)

\* The step asks the leaf of the query of e for its status, with the MUID
\* that the leaf knows, and the query waits for it.
GuidanceRequested(e) ==
    LET dq == dqs[e.obj] IN
    /\ Survives(e.obj)
    /\ "WAITING" \in dqs'[e.obj].flags
    /\ "LINGER" \notin dqs'[e.obj].flags
    /\ {o \in last'.out : o.type \in {"query", "qstat_req"}}
          = {[type |-> "qstat_req", dq |-> e.obj, node |-> dq.node_id,
              muid |-> IF dq.lmuid # NULL THEN dq.lmuid ELSE dq.muid]}
    /\ mq' = mq

\* The step asks no leaf for a status and leaves the query of e, if still
\* there, not waiting for one.
NoGuidanceRequested(e) ==
    /\ \A o \in last'.out : o.type # "qstat_req"
    /\ Survives(e.obj) => "WAITING" \notin dqs'[e.obj].flags

\* The step is the iteration step run for the query of e, the results
\* event having fired.
IterateRuns(e, env) ==
    SameAs(dq_send_next([State EXCEPT !.cq = @ \ {e}, !.dqs[e.obj].results_ev = FALSE],
                        e.obj, env))

\* The results event e of a query that does not wait for a status fires,
\* the collaborators answering env.
FiresNotWaiting(e, env) ==
    /\ Live(e)
    /\ "WAITING" \notin dqs[e.obj].flags
    /\ FiresWith(e, env)

\* C33, as stated: when the results event of a query that does not wait
\* for a status fires, the status is requested from the leaf, with the MUID
\* that the leaf knows, and the query waits for it, if and only if guidance
\* is due; otherwise the iteration step runs.
C33_GuidanceRequestedIffDue ==
    [][\A e \in callout_queue : \A env \in EnvsOf(e) :
          FiresNotWaiting(e, env)
          => IF GuidanceDue(dqs[e.obj])
             THEN GuidanceRequested(e)
             ELSE NoGuidanceRequested(e) /\ IterateRuns(e, env)]_vars

\* The same, for the queries that are leaf-guided or route their hits, the
\* status being requested from a leaf that is still there.
C33_DueAndLeafActive ==
    [][\A e \in callout_queue : \A env \in EnvsOf(e) :
          (FiresNotWaiting(e, env) /\ ~Blind(dqs[e.obj]))
          => IF GuidanceDue(dqs[e.obj])
             THEN env.active => GuidanceRequested(e)
             ELSE NoGuidanceRequested(e) /\ IterateRuns(e, env)]_vars

\* C33, amended: a query that is neither leaf-guided nor routing its hits
\* is ended, nothing sent; otherwise, if guidance is due, the status is
\* requested from the leaf, with the MUID that the leaf knows, and the
\* query waits for it, unless the leaf is gone, in which case the query is
\* freed; otherwise the iteration step runs.
C33_GuidanceRequestedWhenDue ==
    [][\A e \in callout_queue : \A env \in EnvsOf(e) :
          FiresNotWaiting(e, env)
          => IF Blind(dqs[e.obj])
             THEN NoGuidanceRequested(e) /\ Ended(e)
             ELSE IF GuidanceDue(dqs[e.obj])
                  THEN IF env.active THEN GuidanceRequested(e)
                       ELSE e.obj \notin dqueries' /\ ~Dispatched(last'.out, e.obj)
                  ELSE NoGuidanceRequested(e) /\ IterateRuns(e, env)]_vars

\* An OOB-proxied query that got 20 results was sent to three ultrapeers,
\* and its leaf was just asked for its status with the MUID that it knows.
C33_Witness ==
    /\ last.op = "dq_results_expired"
    /\ \E s \in dqueries :
          /\ {"WAITING", "ROUTING_HITS", "LEAF_GUIDED"} \subseteq dqs[s].flags
          /\ dqs[s].lmuid = "g0"
          /\ dqs[s].up_sent = DQ_STAT_THRESHOLD
          /\ dqs[s].new_results = DQ_MIN_FOR_GUIDANCE
          /\ [type |-> "qstat_req", dq |-> s, node |-> dqs[s].node_id, muid |-> "g0"] \in last.out

\* A query that does not route its hits was sent to three ultrapeers, and
\* its leaf was just asked for its status with the MUID of the query.
C33_WitnessWireMuid ==
    /\ last.op = "dq_results_expired"
    /\ \E s \in dqueries :
          /\ "WAITING" \in dqs[s].flags
          /\ "ROUTING_HITS" \notin dqs[s].flags
          /\ dqs[s].lmuid = NULL
          /\ [type |-> "qstat_req", dq |-> s, node |-> dqs[s].node_id, muid |-> dqs[s].muid]
                \in last.out

----------------------------------------------------------------------------
(* C34 *)

\* The results events of the query of e after the step.
GuidanceTimer(e) == EventsNext(e.obj, "dq_results_expired")

\* C34: the event armed when the status is requested from the leaf is due
\* in max(40000 ms, (rtt_avg_ms + rtt_last_ms) / 2), for the round trips of
\* the leaf.
C34_GuidanceTimerFollowsRoundTrip ==
    [][\A e \in callout_queue : \A env \in EnvsOf(e) :
          (FiresNotWaiting(e, env) /\ GuidanceRequested(e))
          => GuidanceTimer(e)
                = {Event("dq_results_expired", e.obj, dqs'[e.obj].qid,
                         MAX(DQ_STATUS_TIMEOUT, (env.rtt[1] + env.rtt[2]) \div 2))}]_vars

\* What the code does: the mean of the round trips is converted to seconds
\* before it is held against the 40000 ms.
C34_GuidanceTimerInSeconds ==
    [][\A e \in callout_queue : \A env \in EnvsOf(e) :
          (FiresNotWaiting(e, env) /\ GuidanceRequested(e))
          => GuidanceTimer(e)
                = {Event("dq_results_expired", e.obj, dqs'[e.obj].qid,
                         MAX(DQ_STATUS_TIMEOUT, (env.rtt[1] + env.rtt[2]) \div 2000))}]_vars

\* Guidance is due for a query whose results event is armed, and the round
\* trips of its leaf take 45 s on average.
C34_Witness ==
    \E e \in callout_queue : \E env \in EnvsOf(e) :
       /\ e.fn = "dq_results_expired"
       /\ Live(e)
       /\ "WAITING" \notin dqs[e.obj].flags
       /\ ~Blind(dqs[e.obj])
       /\ GuidanceDue(dqs[e.obj])
       /\ env.active
       /\ (env.rtt[1] + env.rtt[2]) \div 2 > DQ_STATUS_TIMEOUT
       /\ \E x \in dq_results_expired([State EXCEPT !.cq = @ \ {e}], e.obj, env).cq :
             x.fn = "dq_results_expired" /\ x.delay = DQ_STATUS_TIMEOUT

----------------------------------------------------------------------------
(* C35 *)

\* The entries that the comparison routine is tried on: queue sizes around
\* 2048 bytes apart, of nodes that admit the query or not.
Entries == {0, 1, 2047, 2048, 2049, 4095, 4096, 6144} \X BOOLEAN

Cmp(a, b) == node_mq_qrp_cmp(a[1], a[2], b[1], b[2])

\* The comparison routine is antisymmetric and transitive, and orders two
\* entries as claimed.
ComparisonOrders ==
    /\ \A a, b \in Entries : Cmp(a, b) = -Cmp(b, a)
    /\ \A a, b, c \in Entries : (Cmp(a, b) <= 0 /\ Cmp(b, c) <= 0) => Cmp(a, c) <= 0
    /\ \A a, b \in Entries :
          Cmp(a, b) < 0 <=> IF b[1] - a[1] >= DQ_MQ_EPSILON \/ a[1] - b[1] >= DQ_MQ_EPSILON
                            THEN a[1] < b[1]
                            ELSE IF a[2] # b[2] THEN a[2]
                            ELSE a[1] < b[1]

\* C35: the vector that the iteration step sorted is in the order of the
\* comparison routine, for the depths of the send queues of the candidates
\* and for those that admit the query: at 2048 bytes or more from each
\* other, the shallower first; closer, the one that admits the query first
\* if only one does, and the shallower first otherwise; the comparison
\* being antisymmetric and transitive.
C35_SortedByQueueThenQrp ==
    [][/\ ComparisonOrders
       /\ \A e \in callout_queue : \A env \in EnvsOf(e) :
             (Selecting(e, env) /\ FiresWith(e, env))
             => \E qs \in world.qsizes : qsort_qrp_ok(env.order, qs, env.route)]_vars

\* A results event is armed for an iteration step with two candidates whose
\* send queues are as deep; only the second of the vector admits the
\* query, and the step sends the query to the first.
C35_Witness ==
    \E e \in callout_queue : \E env \in EnvsOf(e) :
       /\ e.fn = "dq_results_expired"
       /\ Selecting(e, env)
       /\ Len(env.order) = 2
       /\ env.order[1] \notin env.route
       /\ env.order[2] \in env.route
       /\ \A qs \in world.qsizes : qs[env.order[1]] = qs[env.order[2]]
       /\ \E pmi \in dq_results_expired([State EXCEPT !.cq = @ \ {e}], e.obj, env).mq :
             pmi \notin mq /\ pmi.node_id = env.order[1]

----------------------------------------------------------------------------
(* C36 *)

\* C36: between two handlers, a live query either lingers and has no
\* results event, or does not linger and has one results event armed, for
\* the iteration step or for the status of its leaf.
C36_ActiveQueryHasTimer ==
    \A s \in dqueries :
       IF "LINGER" \in dqs[s].flags
       THEN ~dqs[s].results_ev /\ ResultsEvents(s) = {}
       ELSE /\ dqs[s].results_ev
            /\ Cardinality(ResultsEvents(s)) = 1
            /\ \A e \in ResultsEvents(s) : e.gen = dqs[s].qid

\* A query that does not linger lost every message it had queued, none
\* being sent: its results event is armed, due in 1 ms.
C36_Witness ==
    \E s \in dqueries :
       /\ "LINGER" \notin dqs[s].flags
       /\ dqs[s].pending = 0
       /\ dqs[s].up_sent = 0
       /\ dqs[s].queried = {}
       /\ {e.delay : e \in ResultsEvents(s)} = {1}

\* A query waits for the status of its leaf, no message pending: its
\* results event is armed, due in 40 s.
C36_WitnessWaiting ==
    \E s \in dqueries :
       /\ "WAITING" \in dqs[s].flags
       /\ dqs[s].pending = 0
       /\ {e.delay : e \in ResultsEvents(s)} = {DQ_STATUS_TIMEOUT}

----------------------------------------------------------------------------
(* C37 *)

\* The message pmi of a live query that waits for the status of its leaf
\* is dropped.
DroppedWhileWaiting(pmi) ==
    /\ pmi.dq \in dqueries
    /\ dqs[pmi.dq].qid = pmi.qid
    /\ "WAITING" \in dqs[pmi.dq].flags
    /\ PmsgFreeOf(pmi, FALSE)

\* The step leaves alone the wait of the query at s for its status: the
\* event armed, the timeouts counted and the waiting flag.
WaitUntouched(s) ==
    /\ Survives(s)
    /\ EventsNext(s, "dq_results_expired") = ResultsEvents(s)
    /\ dqs'[s].stat_timeouts = dqs[s].stat_timeouts
    /\ "WAITING" \in dqs'[s].flags

\* The step counts a status timeout for the query at s.
TimeoutCounted(s) ==
    /\ Survives(s)
    /\ dqs'[s].stat_timeouts > dqs[s].stat_timeouts

\* C37: a status timeout is counted only by the firing of a results event
\* of a waiting query that was armed for the delay of a status request,
\* 40 s at least; a message dropped while
\* the query waits for a status, even the last one pending, changes neither
\* that event nor the count of timeouts.
C37_TimeoutOnlyAfterFullDelay ==
    [][/\ \A pmi \in mq : DroppedWhileWaiting(pmi) => WaitUntouched(pmi.dq)
       /\ \A s \in dqueries :
             TimeoutCounted(s)
             => \E e \in ResultsEvents(s) :
                   /\ ResultsExpiredOf(e)
                   /\ "WAITING" \in dqs[s].flags
                   /\ e.delay >= DQ_STATUS_TIMEOUT]_vars

\* The last pending message of a query that waits for the status of its
\* leaf was just dropped, and the event of the status timeout is due in
\* 1 ms.
C37_Witness ==
    /\ last.op = "dq_pmsg_free"
    /\ \E s \in dqueries :
          /\ "WAITING" \in dqs[s].flags
          /\ dqs[s].pending = 0
          /\ dqs[s].stat_timeouts = 0
          /\ {e.delay : e \in ResultsEvents(s)} = {1}

\* A status timeout was just counted for a query whose leaf had 1 ms to
\* answer.
C37_WitnessCounted ==
    /\ last.op = "dq_results_expired"
    /\ \E s \in dqueries :
          /\ dqs[s].stat_timeouts = 1
          /\ dqs[s].up_sent = DQ_STAT_THRESHOLD
          /\ dqs[s].queried = {"u1", "u2", "u3", "u4"}
          /\ dqs[s].pending = 1

----------------------------------------------------------------------------
(* C38 *)

\* The query dq came from a leaf with a marked speed field that asks for no
\* out-of-band reply.
MarkedNoOob(dq) ==
    /\ dq.node_id # NODE_ID_SELF
    /\ "MARK" \in dq.query_flags
    /\ "OOB_REPLY" \notin dq.query_flags

\* The query dq is OOB-proxied: the leaf knows it under another MUID.
OobProxied(dq) == dq.node_id # NODE_ID_SELF /\ dq.lmuid # NULL

\* The results event e of a query that its leaf does not guide fires after
\* the probe only, with an ultrapeer left to query and nothing that stops
\* the iteration.
FirstIteration(e) ==
    /\ Live(e)
    /\ ResultsExpiredOf(e)
    /\ "LEAF_GUIDED" \notin dqs[e.obj].flags
    /\ dqs[e.obj].up_sent <= DQ_PROBE_UP
    /\ dqs[e.obj].pending = 0
    /\ \A env \in EnvsOf(e) : Candidates(e, env) # {} /\ ~StopBefore(dqs[e.obj], env)

\* Every query that sees all its hits is routing its hits, and goes on
\* after the probe.
RoutingRule(s) ==
    /\ s \in dqueries => "ROUTING_HITS" \in dqs[s].flags
    /\ \A e \in ResultsEvents(s) : FirstIteration(e) => SentToOne(e)

\* C38: a query of a leaf whose speed field is marked and asks for no
\* out-of-band reply is routing its hits from its launch on, and so is an
\* OOB-proxied query; when its leaf does not guide it, its first results
\* event sends it to one more ultrapeer and does not end it.
C38_SeesAllHitsRoutesHits ==
    /\ [](\A s \in dqueries :
            (MarkedNoOob(dqs[s]) \/ OobProxied(dqs[s])) => "ROUTING_HITS" \in dqs[s].flags)
    /\ [][\A s \in dqueries :
            (MarkedNoOob(dqs[s]) \/ OobProxied(dqs[s])) => RoutingRule(s)]_vars

\* The same of the OOB-proxied queries only.
C38_ProxiedRoutesHits ==
    /\ [](\A s \in dqueries : OobProxied(dqs[s]) => "ROUTING_HITS" \in dqs[s].flags)
    /\ [][\A s \in dqueries : OobProxied(dqs[s]) => RoutingRule(s)]_vars

\* A query whose marked speed field asks for no out-of-band reply, launched
\* by a node that proxies no query, was ended by its first results event
\* with three ultrapeers queried and a fourth at hand.
C38_Witness ==
    /\ last.op = "dq_results_expired"
    /\ \E s \in dqueries :
          /\ MarkedNoOob(dqs[s])
          /\ ~OobProxied(dqs[s])
          /\ Blind(dqs[s])
          /\ "LINGER" \in dqs[s].flags
          /\ dqs[s].up_sent = DQ_PROBE_UP
          /\ dqs[s].queried = {"u1", "u2", "u3"}

\* An OOB-proxied query that its leaf does not guide was sent to a fourth
\* ultrapeer by its first results event.
C38_WitnessProxied ==
    /\ last.op = "dq_results_expired"
    /\ \E s \in dqueries :
          /\ OobProxied(dqs[s])
          /\ dqs[s].flags = {"ROUTING_HITS"}
          /\ dqs[s].up_sent = DQ_PROBE_UP
          /\ dqs[s].pending = 1
          /\ dqs[s].queried = {"u1", "u2", "u3", "u4"}

----------------------------------------------------------------------------
(* C39 *)

\* The assertions on the TTL of a message.
TtlAssertions == {"dq_select_ttl: ttl > 0", "dq_pmsg_by_ttl: ttl"}

\* The TTL of every message of the query at s that waits in a queue is
\* within the limits.
TtlWithinLimits(s) ==
    \A pmi \in InFlight(s) :
       /\ 1 <= pmi.ttl
       /\ pmi.ttl <= DQ_MAX_TTL
       /\ pmi.ttl <= NodeMaxTtl(pmi.node_id)
       /\ pmi.ttl <= dqs[s].ttl

\* C39: whatever the TTL of the query received, every message sent for it,
\* by the probe or by an iteration, has a TTL of 1 at least, of DQ_MAX_TTL
\* at most, that exceeds neither the maximum TTL of the node it goes to nor
\* the TTL of the query, and no assertion on a TTL fails.
C39_TtlWithinLimits ==
    /\ \A s \in dqueries : TtlWithinLimits(s)
    /\ failed \cap TtlAssertions = {}

\* The same of the queries received with a TTL of 1 at least.
C39_PositiveTtlWithinLimits ==
    \A s \in dqueries :
       dqs[s].ttl >= 1 => TtlWithinLimits(s) /\ failed \cap TtlAssertions = {}

\* The probe of a query received with a TTL of 0 sent it with a TTL of 1.
C39_Witness ==
    /\ last.op = "dq_launch_net"
    /\ \E s \in dqueries :
          /\ dqs[s].ttl = 0
          /\ dqs[s].pending = DQ_PROBE_UP
          /\ \A pmi \in InFlight(s) : pmi.ttl = 1

\* An iteration of a query received with a TTL of 0 failed the assertion of
\* dq_select_ttl().
C39_WitnessAssertion ==
    /\ last.op = "dq_results_expired"
    /\ "dq_select_ttl: ttl > 0" \in failed
    /\ \E s \in dqueries : dqs[s].ttl = 0

\* A query received with a TTL above DQ_MAX_TTL was sent with the maximum
\* TTL of each node probed.
C39_WitnessClamped ==
    /\ last.op = "dq_launch_net"
    /\ \E s \in dqueries :
          /\ dqs[s].ttl = DQ_MAX_TTL
          /\ {<<pmi.node_id, pmi.ttl>> : pmi \in InFlight(s)}
                = {<<"u1", 4>>, <<"u2", 3>>, <<"u3", 1>>}

----------------------------------------------------------------------------
(* C40 *)

CompletedCounters == {"completed_full", "completed_partial", "completed_zero"}

\* The step frees the query at s.
FreedByStep(s) == s \in dqueries /\ s \notin dqueries'

\* The counters of completed queries that the step increments for the
\* query at s.
CompletedCounted(s) ==
    {o.name : o \in {x \in last'.out : x.type = "stat" /\ x.dq = s /\ x.name \in CompletedCounters}}

\* The query dq has fewer results than it was launched for, by the count of
\* the node and by that of its originator, and no user cancelled it.
FewerThanTargeted(dq) ==
    /\ dq.results < dq.max_results
    /\ dq.kept_results \div (IF dq.node_id = NODE_ID_SELF THEN 1 ELSE DQ_AVG_ULTRA_NODES)
          < dq.max_results
    /\ "USR_CANCELLED" \notin dq.flags

ByResults(dq) == IF dq.results > 0 THEN "completed_partial" ELSE "completed_zero"

\* The step increments one counter of completed queries for each query it
\* frees and none for the others.
OneCounterEach ==
    /\ \A s \in Slots : Cardinality(CompletedCounted(s)) = (IF FreedByStep(s) THEN 1 ELSE 0)
    /\ Cardinality({o \in last'.out : o.type = "stat" /\ o.name \in CompletedCounters})
          = Cardinality(dqueries \ dqueries')

\* C40, as stated: each query freed increments exactly one of
\* completed_full, completed_partial and completed_zero; one that has fewer
\* results than targeted and that no user cancelled increments
\* completed_partial when it has results and completed_zero when it has
\* none, also when it is freed because its originator was removed.
C40_FewerResultsCountedByResults ==
    [][/\ OneCounterEach
       /\ \A s \in Slots :
             (FreedByStep(s) /\ FewerThanTargeted(dqs[s]))
             => CompletedCounted(s) = {ByResults(dqs[s])}]_vars

\* C40, amended: each query freed increments exactly one of the three
\* counters; one that has fewer results than targeted and that no user
\* cancelled increments completed_full when it is freed because its
\* originator was removed, and otherwise completed_partial when it has
\* results and completed_zero when it has none.
C40_RemovedCountedFull ==
    [][/\ OneCounterEach
       /\ \A s \in Slots :
             (FreedByStep(s) /\ FewerThanTargeted(dqs[s]))
             => CompletedCounted(s) = {IF last'.op = "dq_node_removed"
                                       THEN "completed_full"
                                       ELSE ByResults(dqs[s])}]_vars

\* In the accounting world every query has fewer results than targeted.
C40_AllFewerThanTargeted == \A s \in dqueries : FewerThanTargeted(dqs[s])

\* The removal of a leaf freed its two queries, and counted each as fully
\* completed.
C40_Witness ==
    /\ last.op = "dq_node_removed"
    /\ dqueries = {}
    /\ dyn_query_id = 2
    /\ {o \in last.out : o.type = "stat"}
          = {[type |-> "stat", dq |-> s, name |-> "completed_full"] : s \in Slots}

\* A query with a result, of a leaf that is about to be removed.
C40_WitnessPartial ==
    \E s \in dqueries :
       /\ dqs[s].node_id \in DOMAIN by_node_id
       /\ dqs[s].results = 1
       /\ FewerThanTargeted(dqs[s])

\* A lingering query was freed at the end of its time and counted as
\* completed with no result, or with some.
C40_WitnessZero ==
    /\ last.op = "dq_expired"
    /\ [type |-> "stat", dq |-> 1, name |-> "completed_zero"] \in last.out

C40_WitnessSome ==
    /\ last.op = "dq_expired"
    /\ [type |-> "stat", dq |-> 1, name |-> "completed_partial"] \in last.out

====
